---------------------------- MODULE Spec2Model ----------------------------
(***************************************************************************)
(* Shop-AI backend: the semantic retrieval service (pinecone_service.py),  *)
(* the tool execution layer (agent_service.py, execute_tool), the          *)
(* language-model gateway (groq_service.py) and the agent orchestrator     *)
(* (agent_service.py, process_message) with its conversation store.        *)
(*                                                                         *)
(* Numbers: a similarity score s is held as the integer s * 100000, so     *)
(* 0.3 is 30000 and round(s, 4) rounds to a multiple of 10.                *)
(* Python values that cross a dynamically typed boundary (tool arguments)  *)
(* are records [t, n, s]: t is the Python type, n the int, s the str.      *)
(***************************************************************************)
EXTENDS Integers, Sequences, FiniteSets, TLC

VARIABLES
    products,   \* catalog store: product id -> "absent" | "active" | "inactive"
    pcIndex,    \* vector index: the set of ids that have a vector
    orders,     \* order store: sequence of orders, order id = position
    searchOut,  \* the pending return of a PineconeService call, or NoCall
    toolOut,    \* the pending return of ShopAgent.execute_tool, or NoCall
    llmOut,     \* the last return of a GroqLLMService method, or NoCall
    sessions,   \* conversation_sessions: sequence of rows, session id = position
    messages,   \* conversation_messages: sequence of rows in insertion order
    turn,       \* the turn being processed by ShopAgent.process_message
    historyOut, \* the last return of _get_conversation_history, or NoCall
    turns       \* turns running concurrently, each at its own await point

chatVars == <<sessions, messages, turn, historyOut, turns>>
vars == <<products, pcIndex, orders, searchOut, toolOut, llmOut, chatVars>>

---------------------------------------------------------------------------
(* Bounds of the model *)

MaxProducts == 3
MaxOrders == 2

ProductIds == 1..MaxProducts
UserIds == {1, 2}

---------------------------------------------------------------------------
(* Python values *)

Absent == [t |-> "absent", n |-> 0, s |-> ""]
PyNone == [t |-> "none", n |-> 0, s |-> ""]
PyInt(i) == [t |-> "int", n |-> i, s |-> ""]
PyStr(x) == [t |-> "str", n |-> 0, s |-> x]

\* bool(v): None, 0 and "" are falsy; a key that is absent reads as None.
Truthy(v) ==
    CASE v.t = "int" -> v.n # 0
      [] v.t = "str" -> v.s # ""
      [] OTHER -> FALSE

NoCall == [op |-> "none"]

\* no turn is being processed
NoTurn == [pc |-> "idle"]

\* a conversation store without sessions, and no turn in progress
InitChat ==
    /\ sessions = <<>>
    /\ messages = <<>>
    /\ turn = NoTurn
    /\ historyOut = NoCall
    /\ turns = <<>>

---------------------------------------------------------------------------
(* Catalog rows (models.Product). Name, category and price are never       *)
(* updated by any operation of the repository: they are functions of id.   *)

CategoryOf(id) == IF id % 2 = 1 THEN "electronics" ELSE "clothing"
PriceOf(id) == 40 * id

\* db.query(Product).filter(Product.id == pid).first(): pid is a Python value;
\* a non-integer never equals an integer key.
ProductRow(pid) ==
    IF pid.t = "int" /\ pid.n \in ProductIds /\ products[pid.n] # "absent"
    THEN pid.n ELSE 0

---------------------------------------------------------------------------
(* The embedding model and the index's cosine metric. The encoder is       *)
(* deterministic: the score of a query against a vector depends on the     *)
(* query text and the product text only.                                   *)

ScoreTable == <<93217, 61235, 30004, 100001, 45000, 30004, -12000, 20000, 30004, 29996, 74999>>

\* _product_to_text(product) used as a query by find_similar_products
TextOf(id) == [kind |-> "product_text", text |-> "", id |-> id]
QueryText(s) == [kind |-> "text", text |-> s, id |-> 0]

QueryCode(q) ==
    CASE q.text = "" -> 0
      [] q.text = "headphones" -> 1
      [] q.text = "shoes" -> 2
      [] OTHER -> 3

\* A product's text against its own vector scores 1 up to float error; two
\* product texts score the same in either direction.
CosineScore(q, id) ==
    IF q.kind = "product_text"
    THEN IF q.id = id THEN 100001
         ELSE ScoreTable[((2 * q.id * id + q.id + id) % Len(ScoreTable)) + 1]
    ELSE ScoreTable[((QueryCode(q) * 7 + id * 3) % Len(ScoreTable)) + 1]

\* round(x, 4) on a score held in units of 0.00001 (ties to even)
Round4(x) ==
    LET q == x \div 10
        r == x % 10
    IN IF r < 5 THEN q * 10
       ELSE IF r > 5 THEN (q + 1) * 10
       ELSE IF q % 2 = 0 THEN q * 10 ELSE (q + 1) * 10


---------------------------------------------------------------------------
(* Program constants *)

DefaultMinScore == 30000
SimilarMinScore == 20000
MaxLimit == 10
DefaultLimit == 5

---------------------------------------------------------------------------
(* Outcomes of a call: a returned value or a raised exception, with the    *)
(* collaborators the call touched.                                         *)

Returned(val, touched) ==
    [raised |-> FALSE, exc |-> <<>>, value |-> val, touched |-> touched]
Raised(msg, touched) ==
    [raised |-> TRUE, exc |-> msg, value |-> <<>>, touched |-> touched]

\* The environment of one call: which collaborator fails, and the order in
\* which the index returns matches of equal score.
Envs ==
    { [fail |-> "none", tie |-> "asc"], [fail |-> "none", tie |-> "desc"],
      [fail |-> "db", tie |-> "asc"], [fail |-> "pinecone", tie |-> "asc"] }

Min(a, b) == IF a <= b THEN a ELSE b

\* seq[:k] of Python
PySliceTo(seq, k) ==
    IF k >= 0 THEN SubSeq(seq, 1, Min(k, Len(seq)))
    ELSE SubSeq(seq, 1, IF Len(seq) + k > 0 THEN Len(seq) + k ELSE 0)

---------------------------------------------------------------------------
(* PineconeService *)

\* _build_filter and the index's metadata filter
IsNotNone(v) == v.t \notin {"none", "absent"}

MatchesFilter(id, category_filter, min_price, max_price) ==
    /\ Truthy(category_filter) => CategoryOf(id) = category_filter.s
    /\ IsNotNone(min_price) => PriceOf(id) >= min_price.n
    /\ IsNotNone(max_price) => PriceOf(id) <= max_price.n

\* The index returns its matches by descending score.
RanksBefore(a, b, q, tie) ==
    \/ CosineScore(q, a) > CosineScore(q, b)
    \/ /\ CosineScore(q, a) = CosineScore(q, b)
       /\ IF tie = "asc" THEN a < b ELSE a > b

RECURSIVE SortedMatches(_, _, _)
SortedMatches(S, q, tie) ==
    IF S = {} THEN <<>>
    ELSE LET m == CHOOSE a \in S : \A b \in S \ {a} : RanksBefore(a, b, q, tie)
         IN <<m>> \o SortedMatches(S \ {m}, q, tie)

\* index.query(vector, top_k, filter) on an index holding the vectors of
\* the given ids: at most top_k nearest vectors
IndexQueryOver(index, q, top_k, category_filter, min_price, max_price, tie) ==
    LET candidates ==
            {id \in index : MatchesFilter(id, category_filter, min_price, max_price)}
    IN PySliceTo(SortedMatches(candidates, q, tie), top_k)

\* self.index.query(**query_params)
IndexQuery(q, top_k, category_filter, min_price, max_price, tie) ==
    IndexQueryOver(pcIndex, q, top_k, category_filter, min_price, max_price, tie)

\* The request is rejected by the client or the index service.
QueryRejected(top_k, min_price, max_price) ==
    \/ top_k.t # "int" \/ top_k.n < 1
    \/ IsNotNone(min_price) /\ min_price.t # "int"
    \/ IsNotNone(max_price) /\ max_price.t # "int"

\* SearchResult(similarity=...) with Field(ge=0, le=1)
ValidSimilarity(x) == 0 <= x /\ x <= 100000

\* a hydration that forgets the is_active test
KeepsMatchAnyRow(id) == products[id] # "absent"

\* if product and product.is_active
KeepsMatch(id) == products[id] = "active"

\* if min_score is None: min_score = self.default_min_score
ScoreFloor(min_score) ==
    IF min_score.t = "none" THEN DefaultMinScore ELSE min_score.n

\* if match.score >= min_score
AboveFloor(query, matches, floor) ==
    SelectSeq(matches, LAMBDA id : CosineScore(query, id) >= floor)

\* SearchResult(product=..., similarity=round(match.score, 4))
SearchResults(query, hydrated) ==
    [i \in 1..Len(hydrated) |->
        [id |-> hydrated[i], similarity |-> Round4(CosineScore(query, hydrated[i]))]]

\* the loop over results.matches: each surviving match is read from the
\* catalog store, and each kept one is validated as a SearchResult
SearchFinish(surviving, results, env) ==
    IF surviving # <<>> /\ env.fail = "db"
    THEN Raised(<<"OperationalError">>, {"pinecone", "products"})
    ELSE IF \E i \in 1..Len(results) : ~ValidSimilarity(results[i].similarity)
    THEN Raised(<<"ValidationError">>, {"pinecone", "products"})
    ELSE Returned(results, IF surviving # <<>> THEN {"pinecone", "products"}
                           ELSE {"pinecone"})

SearchLoop(query, surviving, env) ==
    SearchFinish(surviving, SearchResults(query, SelectSeq(surviving, KeepsMatch)), env)

\* a search that forgets the min_score test
searchNoFloor(query, top_k, category_filter, min_price, max_price, min_score, env) ==
    IF env.fail = "pinecone" THEN Raised(<<"PineconeException">>, {"pinecone"})
    ELSE IF QueryRejected(top_k, min_price, max_price)
    THEN Raised(<<"PineconeApiException">>, {"pinecone"})
    ELSE SearchLoop(query,
                    IndexQuery(query, top_k.n, category_filter, min_price, max_price,
                               env.tie),
                    env)

search(query, top_k, category_filter, min_price, max_price, min_score, env) ==
    IF env.fail = "pinecone" THEN Raised(<<"PineconeException">>, {"pinecone"})
    ELSE IF QueryRejected(top_k, min_price, max_price)
    THEN Raised(<<"PineconeApiException">>, {"pinecone"})
    ELSE SearchLoop(query,
                    AboveFloor(query,
                               IndexQuery(query, top_k.n, category_filter, min_price,
                                          max_price, env.tie),
                               ScoreFloor(min_score)),
                    env)

\* a find_similar_products that forgets to filter out the source product
ExcludeSourceKeepsIt(row, top_k, found) ==
    IF found.raised THEN Raised(found.exc, found.touched \cup {"products"})
    ELSE Returned(PySliceTo(found.value, top_k.n), found.touched \cup {"products"})

\* return [r for r in results if r.product.id != product_id][:top_k]
ExcludeSource(row, top_k, found) ==
    IF found.raised THEN Raised(found.exc, found.touched \cup {"products"})
    ELSE Returned(PySliceTo(SelectSeq(found.value, LAMBDA r : r.id # row), top_k.n),
                  found.touched \cup {"products"})

FindSimilarTo(row, top_k, env) ==
    IF row = 0 THEN Returned(<<>>, {"products"})
    ELSE IF top_k.t # "int" THEN Raised(<<"TypeError">>, {"products"})
    ELSE ExcludeSource(row, top_k,
                       search(TextOf(row), PyInt(top_k.n + 1), PyNone, PyNone, PyNone,
                              PyInt(SimilarMinScore), env))

find_similar_products(product_id, top_k, env) ==
    IF env.fail = "db" THEN Raised(<<"OperationalError">>, {"products"})
    ELSE FindSimilarTo(ProductRow(product_id), top_k, env)

\* an upsert that drops the vector it finds under the id
index_productDropping(index, id) ==
    IF id \in index THEN index \ {id} ELSE index \cup {id}

\* index_product: upsert of one vector keyed by the product id
index_product(index, id) == index \cup {id}

\* index_all_products: upsert of every active product
index_all_products(index) == index \cup {id \in ProductIds : products[id] = "active"}

\* delete_product: delete by id, nothing happens when the id has no vector
delete_product(index, id) == index \ {id}

---------------------------------------------------------------------------
(* Catalog and index operations *)

Idle == searchOut.op = "none" /\ toolOut.op = "none"

\* the id the store gives the next product row
NextProductId ==
    IF \A id \in ProductIds : products[id] = "absent" THEN 1
    ELSE 1 + CHOOSE id \in ProductIds :
                /\ products[id] # "absent"
                /\ \A j \in ProductIds : products[j] # "absent" => j <= id

\* POST /products: the row is created active; indexing is attempted and a
\* failure of it is swallowed.
CreateProduct(indexed) ==
    /\ Idle
    /\ NextProductId \in ProductIds
    /\ products' = [products EXCEPT ![NextProductId] = "active"]
    /\ pcIndex' = IF indexed THEN index_product(pcIndex, NextProductId) ELSE pcIndex
    /\ UNCHANGED <<orders, searchOut, toolOut, llmOut, chatVars>>

\* Product.is_active set to False by catalog management
DeactivateProduct(id) ==
    /\ Idle
    /\ products[id] = "active"
    /\ products' = [products EXCEPT ![id] = "inactive"]
    /\ UNCHANGED <<pcIndex, orders, searchOut, toolOut, llmOut, chatVars>>

\* the product row deleted by catalog management
DeleteProductRow(id) ==
    /\ Idle
    /\ products[id] # "absent"
    /\ products' = [products EXCEPT ![id] = "absent"]
    /\ UNCHANGED <<pcIndex, orders, searchOut, toolOut, llmOut, chatVars>>

\* index_product(product) called on a product row; the caller keeps the
\* index as it was before the call
IndexProduct(id) ==
    /\ Idle
    /\ products[id] # "absent"
    /\ pcIndex' = index_product(pcIndex, id)
    /\ searchOut' = [op |-> "index_product", id |-> id, before |-> pcIndex]
    /\ UNCHANGED <<products, orders, toolOut, llmOut, chatVars>>

\* POST /admin/index-products
IndexAllProducts ==
    /\ Idle
    /\ pcIndex' = index_all_products(pcIndex)
    /\ UNCHANGED <<products, orders, searchOut, toolOut, llmOut, chatVars>>

RemoveVector(id) ==
    /\ Idle
    /\ pcIndex' = delete_product(pcIndex, id)
    /\ UNCHANGED <<products, orders, searchOut, toolOut, llmOut, chatVars>>

---------------------------------------------------------------------------
(* A call of search and its return to the caller *)

QueryTexts == {"", "headphones", "shoes"}
TopKs == {PyInt(0), PyInt(1), PyInt(2), PyInt(10)}
\* <<category_filter, min_price, max_price>>: one per branch of _build_filter
Filters ==
    { <<PyNone, PyNone, PyNone>>, <<PyStr("electronics"), PyInt(50), PyNone>>,
      <<PyNone, PyNone, PyInt(100)>>, <<PyStr(""), PyInt(50), PyInt(100)>> }
MinScores == {PyNone, PyInt(SimilarMinScore), PyInt(-50000)}

SearchCall(q, top_k, category_filter, min_price, max_price, min_score, env) ==
    /\ Idle
    /\ searchOut' = [op |-> "search", query |-> QueryText(q), top_k |-> top_k,
                     category_filter |-> category_filter,
                     min_price |-> min_price, max_price |-> max_price,
                     min_score |-> min_score,
                     out |-> search(QueryText(q), top_k, category_filter,
                                    min_price, max_price, min_score, env)]
    /\ UNCHANGED <<products, pcIndex, orders, toolOut, llmOut, chatVars>>

SimilarIds == {PyInt(id) : id \in ProductIds} \cup {PyInt(99)}
SimilarTopKs == {PyInt(-1), PyInt(0), PyInt(1), PyInt(2), PyInt(5)}

FindSimilarCall(product_id, top_k, env) ==
    /\ Idle
    /\ searchOut' = [op |-> "find_similar_products", product_id |-> product_id,
                     top_k |-> top_k, env |-> env,
                     out |-> find_similar_products(product_id, top_k, env)]
    /\ UNCHANGED <<products, pcIndex, orders, toolOut, llmOut, chatVars>>

\* the caller takes what the service returned (or the exception)
SearchReturn ==
    /\ searchOut.op # "none"
    /\ searchOut' = NoCall
    /\ UNCHANGED <<products, pcIndex, orders, toolOut, llmOut, chatVars>>

InitStore ==
    /\ products = [id \in ProductIds |-> "absent"]
    /\ pcIndex = {}
    /\ orders = <<>>

InitSearch ==
    /\ InitStore
    /\ searchOut = NoCall
    /\ toolOut = NoCall
    /\ llmOut = NoCall
    /\ InitChat

NextSearch ==
    \/ \E indexed \in BOOLEAN : CreateProduct(indexed)
    \/ \E id \in ProductIds : DeactivateProduct(id)
    \/ \E id \in ProductIds : DeleteProductRow(id)
    \/ \E id \in ProductIds : IndexProduct(id)
    \/ IndexAllProducts
    \/ \E id \in ProductIds : RemoveVector(id)
    \/ \E q \in QueryTexts, top_k \in TopKs, f \in Filters,
          min_score \in MinScores, env \in Envs :
            SearchCall(q, top_k, f[1], f[2], f[3], min_score, env)
    \/ \E product_id \in SimilarIds, top_k \in SimilarTopKs, env \in Envs :
            FindSimilarCall(product_id, top_k, env)
    \/ SearchReturn

SpecSearch == InitSearch /\ [][NextSearch]_vars


---------------------------------------------------------------------------
(* Tool execution layer: ShopAgent.execute_tool *)

ArgKeys ==
    {"query", "category", "min_price", "max_price", "limit",
     "product_id", "product_name", "preferences", "order_id"}

RegisteredTools ==
    {"search_products", "get_product_details", "get_recommendations",
     "check_order_status", "get_user_orders"}

\* AgentToolkit.TOOLS: the parameters each tool declares, by JSON type, and
\* the ones it requires
ToolSchema(tool_name) ==
    CASE tool_name = "search_products" ->
            [required |-> {"query"}, strings |-> {"query", "category"},
             numbers |-> {"min_price", "max_price", "limit"}]
      [] tool_name = "get_product_details" ->
            [required |-> {}, strings |-> {"product_name"}, numbers |-> {"product_id"}]
      [] tool_name = "get_recommendations" ->
            [required |-> {}, strings |-> {"category", "preferences"},
             numbers |-> {"product_id", "limit"}]
      [] tool_name = "check_order_status" ->
            [required |-> {"order_id"}, strings |-> {}, numbers |-> {"order_id"}]
      [] OTHER -> [required |-> {}, strings |-> {}, numbers |-> {}]

\* arguments.get(key, default)
ArgGet(arguments, key, default) ==
    IF arguments[key].t = "absent" THEN default ELSE arguments[key]

\* Payloads. A dict is held by its key set and the values the claims read.
ProductKeys == {"id", "name", "price", "category", "is_active", "created_at"}
OrderKeys == {"order_id", "status", "total_amount", "created_at"}

\* _search_result_to_dict: product.model_dump() plus "similarity"
SearchResultDict(r) ==
    [keys |-> ProductKeys \cup {"similarity"}, id |-> r.id, order_id |-> 0,
     similarity |-> r.similarity, status |-> ""]

\* ProductResponse.model_validate(product).model_dump()
ProductDict(id) ==
    [keys |-> ProductKeys, id |-> id, order_id |-> 0, similarity |-> -1, status |-> ""]

OrderDict(oid, keys) ==
    [keys |-> keys, id |-> 0, order_id |-> oid, similarity |-> -1,
     status |-> orders[oid].status]

NoResult == [kind |-> "none", items |-> <<>>]
ListResult(items) == [kind |-> "list", items |-> items]
DictResult(item) == [kind |-> "dict", items |-> <<item>>]

NoMessage == [none |-> TRUE, text |-> <<>>]
Message(text) == [none |-> FALSE, text |-> text]

\* ToolResult(call_id, tool_name, result, success, error_message=None)
ToolSuccess(tool_name, result) ==
    [tool_name |-> tool_name, success |-> TRUE, result |-> result,
     error_message |-> NoMessage]
\* a failed ToolResult that loses its message
ToolFailureNoMessage(tool_name, text) ==
    [tool_name |-> tool_name, success |-> FALSE, result |-> NoResult,
     error_message |-> NoMessage]

ToolFailure(tool_name, text) ==
    [tool_name |-> tool_name, success |-> FALSE, result |-> NoResult,
     error_message |-> Message(text)]

\* the text a query argument gives the encoder; the encoder takes a string
IsText(v) == v.t = "str"

\* search as the tools call it: the query is an argument value
ToolSearch(query, top_k, category_filter, min_price, max_price, env) ==
    IF ~IsText(query) THEN Raised(<<"TypeError">>, {"pinecone"})
    ELSE search(QueryText(query.s), top_k, category_filter, min_price, max_price,
                PyNone, env)

\* [self._search_result_to_dict(r) for r in results]
SerializableResults(results) ==
    [i \in 1..Len(results) |-> SearchResultDict(results[i])]

\* a list of SearchResult returned as a successful ToolResult
ListToolResult(tool_name, found) ==
    IF found.raised THEN found
    ELSE Returned(ToolSuccess(tool_name,
                    ListResult(SerializableResults(found.value))),
                  found.touched)

\* top_k=min(arguments.get("limit", 5), 10)
SearchTopK(limit) == PyInt(Min(limit.n, MaxLimit))

SearchProductsWith(tool_name, arguments, limit, env) ==
    IF limit.t # "int" THEN Raised(<<"TypeError">>, {})
    ELSE ListToolResult(tool_name,
            ToolSearch(ArgGet(arguments, "query", PyStr("")),
                       SearchTopK(limit),
                       ArgGet(arguments, "category", PyNone),
                       ArgGet(arguments, "min_price", PyNone),
                       ArgGet(arguments, "max_price", PyNone), env))

search_products(tool_name, arguments, env) ==
    SearchProductsWith(tool_name, arguments,
                       ArgGet(arguments, "limit", PyInt(DefaultLimit)), env)

ProductNotFound(tool_name, touched) ==
    Returned(ToolFailure(tool_name, <<"Product not found">>), touched)
ProductFound(tool_name, id, touched) ==
    Returned(ToolSuccess(tool_name, DictResult(ProductDict(id))), touched)

\* filter(Product.id == arguments["product_id"], Product.is_active == True)
DetailsById(tool_name, row, env) ==
    IF env.fail = "db" THEN Raised(<<"OperationalError">>, {"products"})
    ELSE IF row # 0 /\ products[row] = "active"
    THEN ProductFound(tool_name, row, {"products"})
    ELSE ProductNotFound(tool_name, {"products"})

\* the top-1 search by name, then the row of its first result
DetailsByName(tool_name, found) ==
    IF found.raised THEN found
    ELSE IF found.value = <<>> THEN ProductNotFound(tool_name, found.touched)
    ELSE IF ProductRow(PyInt(found.value[1].id)) # 0
    THEN ProductFound(tool_name, found.value[1].id, found.touched)
    ELSE ProductNotFound(tool_name, found.touched)

get_product_details(tool_name, arguments, env) ==
    IF Truthy(arguments["product_id"])
    THEN DetailsById(tool_name, ProductRow(arguments["product_id"]), env)
    ELSE IF Truthy(arguments["product_name"])
    THEN DetailsByName(tool_name,
            ToolSearch(arguments["product_name"], PyInt(1), PyNone, PyNone, PyNone, env))
    ELSE ProductNotFound(tool_name, {})

\* db.query(Product).filter(Product.is_active == True).limit(5).all()
RECURSIVE AscendingIds(_)
AscendingIds(S) ==
    IF S = {} THEN <<>>
    ELSE LET m == CHOOSE a \in S : \A b \in S : a <= b
         IN <<m>> \o AscendingIds(S \ {m})

FirstActive(active) ==
    [i \in 1..Min(Len(active), 5) |-> [id |-> active[i], similarity |-> 100000]]

DefaultRecommendations ==
    FirstActive(AscendingIds({id \in ProductIds : products[id] = "active"}))

\* top_k=arguments.get("limit", 5)
RecommendationsTopK(limit) == limit

RecommendationSource(arguments, limit, env) ==
    IF Truthy(arguments["product_id"])
    THEN find_similar_products(arguments["product_id"], RecommendationsTopK(limit), env)
    ELSE IF Truthy(arguments["preferences"]) \/ Truthy(arguments["category"])
    THEN ToolSearch(ArgGet(arguments, "preferences",
                           ArgGet(arguments, "category", PyStr(""))),
                    RecommendationsTopK(limit), ArgGet(arguments, "category", PyNone),
                    PyNone, PyNone, env)
    ELSE IF env.fail = "db" THEN Raised(<<"OperationalError">>, {"products"})
    ELSE Returned(DefaultRecommendations, {"products"})

get_recommendations(tool_name, arguments, env) ==
    ListToolResult(tool_name,
        RecommendationSource(arguments,
                             ArgGet(arguments, "limit", PyInt(DefaultLimit)), env))

\* db.query(Order).filter(Order.id == order_id).first()
OrderRow(oid) == IF oid.t = "int" /\ oid.n \in 1..Len(orders) THEN oid.n ELSE 0

OrderStatusOf(tool_name, row) ==
    IF row # 0
    THEN Returned(ToolSuccess(tool_name,
                    DictResult(OrderDict(row, OrderKeys \cup {"shipping_address"}))),
                  {"orders"})
    ELSE Returned(ToolFailure(tool_name, <<"Order not found">>), {"orders"})

check_order_status(tool_name, arguments, env) ==
    IF arguments["order_id"].t = "absent" THEN Raised(<<"'order_id'">>, {})
    ELSE IF env.fail = "db" THEN Raised(<<"OperationalError">>, {"orders"})
    ELSE OrderStatusOf(tool_name, OrderRow(arguments["order_id"]))

\* a query that forgets the user_id filter
OrdersOfAnyUser(uid) == [i \in 1..Len(orders) |-> i]

\* db.query(Order).filter(Order.user_id == user_id).all()
OrdersOfUser(uid) ==
    SelectSeq([i \in 1..Len(orders) |-> i], LAMBDA i : orders[i].user_id = uid)

\* [{...} for o in orders]
UserOrderDicts(found) == [i \in 1..Len(found) |-> OrderDict(found[i], OrderKeys)]

get_user_orders(tool_name, user_id, env) ==
    IF ~Truthy(user_id)
    THEN Returned(ToolFailure(tool_name, <<"Please log in to view your orders">>), {})
    ELSE IF env.fail = "db" THEN Raised(<<"OperationalError">>, {"orders"})
    ELSE Returned(ToolSuccess(tool_name,
                    ListResult(UserOrderDicts(OrdersOfUser(user_id.n)))),
                  {"orders"})

\* an unknown-tool message that does not name the tool
UnknownToolNoName(tool_name) ==
    Returned(ToolFailure(tool_name, <<"Unknown tool">>), {})

\* else: the name is not a registered tool
UnknownTool(tool_name) ==
    Returned(ToolFailure(tool_name, <<"Unknown tool: ", tool_name>>), {})

\* the body of the try block
\* a dispatch that shows an order to its owner only
ToolBodyOwnerOnly(tool_name, arguments, user_id, env) ==
    CASE tool_name = "search_products" -> search_products(tool_name, arguments, env)
      [] tool_name = "get_product_details" -> get_product_details(tool_name, arguments, env)
      [] tool_name = "get_recommendations" -> get_recommendations(tool_name, arguments, env)
      [] tool_name = "check_order_status" ->
            IF /\ OrderRow(arguments["order_id"]) # 0
               /\ PyInt(orders[OrderRow(arguments["order_id"])].user_id) # user_id
            THEN Returned(ToolFailure(tool_name, <<"Order not found">>), {"orders"})
            ELSE check_order_status(tool_name, arguments, env)
      [] tool_name = "get_user_orders" -> get_user_orders(tool_name, user_id, env)
      [] OTHER -> UnknownTool(tool_name)

ToolBody(tool_name, arguments, user_id, env) ==
    CASE tool_name = "search_products" -> search_products(tool_name, arguments, env)
      [] tool_name = "get_product_details" -> get_product_details(tool_name, arguments, env)
      [] tool_name = "get_recommendations" -> get_recommendations(tool_name, arguments, env)
      [] tool_name = "check_order_status" -> check_order_status(tool_name, arguments, env)
      [] tool_name = "get_user_orders" -> get_user_orders(tool_name, user_id, env)
      [] OTHER -> UnknownTool(tool_name)

\* except Exception as e: the failure becomes a ToolResult with str(e)
CatchAll(tool_name, body) ==
    IF body.raised
    THEN Returned(ToolFailure(tool_name, body.exc), body.touched)
    ELSE body

\* an execute_tool without the except clause
execute_tool_uncaught(tool_name, arguments, user_id, env) ==
    ToolBody(tool_name, arguments, user_id, env)

execute_tool(tool_name, arguments, user_id, env) ==
    CatchAll(tool_name, ToolBody(tool_name, arguments, user_id, env))

---------------------------------------------------------------------------
(* Calls of execute_tool against a catalog, an index and an order store *)

\* POST /orders: OrderService.create_order adds an order of the caller;
\* Order.status takes its default
PlaceOrder(uid) ==
    /\ Idle
    /\ Len(orders) < MaxOrders
    /\ orders' = Append(orders, [user_id |-> uid, status |-> "pending"])
    /\ UNCHANGED <<products, pcIndex, searchOut, toolOut, llmOut, chatVars>>

NoArgs == [k \in ArgKeys |-> Absent]

\* argument mappings the gateway may hand over: well formed, incomplete and
\* ill typed
ArgumentSets ==
    { NoArgs,
      [NoArgs EXCEPT !["query"] = PyStr("headphones")],
      [NoArgs EXCEPT !["query"] = PyStr("shoes"), !["limit"] = PyInt(20),
                     !["category"] = PyStr("electronics"), !["max_price"] = PyInt(100)],
      [NoArgs EXCEPT !["query"] = PyStr("headphones"), !["limit"] = PyStr("many")],
      [NoArgs EXCEPT !["query"] = PyStr("shoes"), !["limit"] = PyNone],
      [NoArgs EXCEPT !["query"] = PyStr("headphones"), !["limit"] = PyInt(0)],
      [NoArgs EXCEPT !["product_id"] = PyInt(1)],
      [NoArgs EXCEPT !["product_id"] = PyInt(2), !["limit"] = PyInt(1)],
      [NoArgs EXCEPT !["product_id"] = PyInt(99)],
      [NoArgs EXCEPT !["product_id"] = PyStr("abc")],
      [NoArgs EXCEPT !["product_name"] = PyStr("shoes")],
      [NoArgs EXCEPT !["preferences"] = PyStr("headphones"), !["limit"] = PyInt(20)],
      [NoArgs EXCEPT !["category"] = PyStr("electronics")],
      [NoArgs EXCEPT !["order_id"] = PyInt(1)],
      [NoArgs EXCEPT !["order_id"] = PyInt(2)],
      [NoArgs EXCEPT !["order_id"] = PyInt(99)],
      [NoArgs EXCEPT !["order_id"] = PyNone] }

ToolNames == RegisteredTools \cup {"cancel_order", ""}

\* the caller identity: a guest or an authenticated user
CallerIds == {PyNone} \cup {PyInt(u) : u \in UserIds}

ExecuteTool(tool_name, arguments, user_id, env) ==
    /\ Idle
    /\ toolOut' = [op |-> "execute_tool", tool_name |-> tool_name,
                   arguments |-> arguments, user_id |-> user_id, env |-> env,
                   out |-> execute_tool(tool_name, arguments, user_id, env)]
    /\ UNCHANGED <<products, pcIndex, orders, searchOut, llmOut, chatVars>>

\* the orchestrator takes the ToolResult
ToolReturn ==
    /\ toolOut.op = "execute_tool"
    /\ toolOut' = NoCall
    /\ UNCHANGED <<products, pcIndex, orders, searchOut, llmOut, chatVars>>

\* Catalogs and indexes the tools run against: all products live and indexed;
\* an index with vectors of a deactivated and of a deleted product; a catalog
\* that was never indexed; an empty shop.
StoreLive == [products |-> [id \in ProductIds |-> "active"], index |-> ProductIds]
StoreStale ==
    [products |-> [id \in ProductIds |->
                      IF id = 1 THEN "inactive" ELSE IF id = 2 THEN "absent" ELSE "active"],
     index |-> ProductIds]
StoreBare == [products |-> [id \in ProductIds |-> "active"], index |-> {}]
StoreEmpty == [products |-> [id \in ProductIds |-> "absent"], index |-> {}]

InitTools ==
    /\ \E st \in {StoreLive, StoreStale, StoreBare, StoreEmpty} :
        products = st.products /\ pcIndex = st.index
    /\ orders = <<>>
    /\ searchOut = NoCall
    /\ toolOut = NoCall
    /\ llmOut = NoCall
    /\ InitChat

NextTools ==
    \/ \E uid \in UserIds : PlaceOrder(uid)
    \/ \E tool_name \in ToolNames, arguments \in ArgumentSets,
          user_id \in CallerIds, env \in Envs :
            ExecuteTool(tool_name, arguments, user_id, env)
    \/ ToolReturn

SpecTools == InitTools /\ [][NextTools]_vars

---------------------------------------------------------------------------
(* Language-model gateway: GroqLLMService. The message, the history and    *)
(* the prompt only shape the provider's answer, which is an input here.    *)
(* A text is a sequence of pieces; the empty text is <<>>.                 *)

\* schemas.Intent
Intents ==
    {"product_search", "product_recommendation", "product_details", "order_help",
     "order_status", "general_question", "greeting", "farewell", "complaint",
     "unknown"}

\* an Intent(intent_str) without the ValueError
ParseIntentUnchecked(intent_str) == intent_str.s

\* try: Intent(intent_str) except ValueError: Intent.UNKNOWN
ParseIntent(intent_str) ==
    IF intent_str.t = "str" /\ intent_str.s \in Intents THEN intent_str.s ELSE "unknown"

\* ExtractedEntities(): every field None; order_id 0 stands for None
EmptyEntities == [order_id |-> 0]

\* ExtractedEntities.model_validate(entities_data): "dict" is a mapping whose
\* fields validate, "bad" one that does not, "none" is JSON null
EntitiesValidate(entities_data) == entities_data.t \in {"absent", "dict"}
ParseEntities(entities_data) ==
    IF entities_data.t = "dict" THEN [order_id |-> entities_data.order_id]
    ELSE EmptyEntities

\* float(result.get("confidence", 0.5)), in hundredths; a str converts when
\* it spells a number
ConfidenceConverts(c) == c.t \in {"absent", "int"} \/ (c.t = "str" /\ c.s = "0.8")
ParseConfidence(c) ==
    IF c.t = "absent" THEN 50 ELSE IF c.t = "int" THEN c.n ELSE 80

\* requires_clarification: bool of IntentClassificationResult
ClarificationValidates(rc) == rc \in {"absent", "true", "false"}

ClassifyFallback ==
    [intent |-> "unknown", confidence |-> 0, entities |-> EmptyEntities,
     requires_clarification |-> TRUE,
     clarification_question |->
        <<"I'm not sure I understood that. Could you please rephrase?">>]

\* the try block of classify_intent
ClassifyBody(answer) ==
    IF answer.transport # "ok" THEN Raised(<<"APIConnectionError">>, {"groq"})
    ELSE IF answer.json = "invalid" THEN Raised(<<"JSONDecodeError">>, {"groq"})
    ELSE IF answer.json = "array" THEN Raised(<<"AttributeError">>, {"groq"})
    ELSE IF ~EntitiesValidate(answer.entities)
    THEN Raised(<<"ValidationError">>, {"groq"})
    ELSE IF ~ConfidenceConverts(answer.confidence)
    THEN Raised(<<"ValueError">>, {"groq"})
    ELSE IF ~ClarificationValidates(answer.requires_clarification)
    THEN Raised(<<"ValidationError">>, {"groq"})
    ELSE Returned([intent |-> ParseIntent(answer.intent),
                   confidence |-> ParseConfidence(answer.confidence),
                   entities |-> ParseEntities(answer.entities),
                   requires_clarification |-> answer.requires_clarification = "true",
                   clarification_question |-> answer.clarification_question],
                  {"groq"})

\* except Exception: the fallback classification
ClassifyCatch(body) ==
    IF body.raised THEN Returned(ClassifyFallback, body.touched) ELSE body

classify_intent(answer) == ClassifyCatch(ClassifyBody(answer))

Apology ==
    <<"I apologize, but I encountered an error processing your request. Please try again.">>

\* tool_results: None or a list of dicts, each held by its key set
NoToolResults == [none |-> TRUE, items |-> <<>>]
ToolResults(items) == [none |-> FALSE, items |-> items]

\* the loop that renders tool_results: result['tool_name'] and result['result']
RendersToolContext(tool_results) ==
    \A i \in 1..Len(tool_results.items) :
        {"tool_name", "result"} \subseteq tool_results.items[i].keys

generate_response(tool_results, answer) ==
    IF tool_results.items # <<>> /\ ~RendersToolContext(tool_results)
    THEN Raised(<<"'tool_name'">>, {})
    ELSE IF answer.transport # "ok" THEN Returned(Apology, {"groq"})
    ELSE Returned(answer.content, {"groq"})

\* LLMResponse(content, tool_calls)
LLMResponse(content, tool_calls) == [content |-> content, tool_calls |-> tool_calls]
NoToolCalls == [none |-> TRUE, items |-> <<>>]

\* ToolCallRequest(...).model_dump() of one requested call
ToolCallRequest(tool_call) ==
    [tool_name |-> tool_call.name, arguments |-> tool_call.arguments]

\* the tool_calls list built by the loop over response_message.tool_calls
ToolCallRequests(tool_calls) ==
    [i \in 1..Len(tool_calls) |-> ToolCallRequest(tool_calls[i])]

\* json.loads(tool_call.function.arguments) as Dict[str, Any]
ArgumentsParse(tool_call) == tool_call.json = "object"

\* the try block of call_with_tools
CallWithToolsBody(answer) ==
    IF answer.transport # "ok" THEN Raised(<<"APIConnectionError">>, {"groq"})
    ELSE IF answer.tool_calls # <<>>
    THEN IF \E i \in 1..Len(answer.tool_calls) : ~ArgumentsParse(answer.tool_calls[i])
         THEN Raised(<<"JSONDecodeError">>, {"groq"})
         ELSE Returned(LLMResponse(<<>>,
                        [none |-> FALSE,
                         items |-> ToolCallRequests(answer.tool_calls)]),
                       {"groq"})
    ELSE Returned(LLMResponse(answer.content, NoToolCalls), {"groq"})

\* except Exception as e: the error becomes the content
CallWithToolsCatch(body) ==
    IF body.raised
    THEN Returned(LLMResponse(<<"I encountered an error: ">> \o body.exc, NoToolCalls),
                  body.touched)
    ELSE body

call_with_tools(answer) == CallWithToolsCatch(CallWithToolsBody(answer))

---------------------------------------------------------------------------
(* Calls of the gateway, with the answers the provider may give *)

IntentAnswers ==
    {Absent, PyNone, PyInt(3), PyStr("buy_now")} \cup {PyStr(i) : i \in Intents}
EntityAnswers ==
    { [t |-> "absent", order_id |-> 0], [t |-> "dict", order_id |-> 0],
      [t |-> "dict", order_id |-> 1], [t |-> "bad", order_id |-> 0],
      [t |-> "none", order_id |-> 0] }
ConfidenceAnswers == {Absent, PyInt(90), PyStr("0.8"), PyStr("high"), PyNone}
ClarificationAnswers == {"absent", "true", "false", "bad"}

ClassifyAnswers ==
    { [transport |-> "error", json |-> "object", intent |-> PyStr("greeting"),
       entities |-> [t |-> "absent", order_id |-> 0], confidence |-> Absent,
       requires_clarification |-> "absent", clarification_question |-> <<>>] }
    \cup
    [transport : {"ok"}, json : {"invalid", "array"}, intent : {PyStr("greeting")},
     entities : {[t |-> "absent", order_id |-> 0]}, confidence : {Absent},
     requires_clarification : {"absent"}, clarification_question : {<<>>}]
    \cup
    [transport : {"ok"}, json : {"object"}, intent : IntentAnswers,
     entities : EntityAnswers, confidence : ConfidenceAnswers,
     requires_clarification : ClarificationAnswers,
     clarification_question : {<<>>, <<"Which order do you mean?">>}]

\* the dicts the orchestrator accumulates, {tool, result}, and dicts keyed
\* as generate_response reads them, {tool_name, result}
ToolResultLists ==
    { NoToolResults, ToolResults(<<>>),
      ToolResults(<<[keys |-> {"tool", "result"}, name |-> "search_products"]>>),
      ToolResults(<<[keys |-> {"tool", "result"}, name |-> "search_products"],
                    [keys |-> {"tool", "result"}, name |-> "get_product_details"]>>),
      ToolResults(<<[keys |-> {"tool_name", "result"}, name |-> "check_order_status"]>>) }

TextAnswers ==
    [transport : {"ok", "error"}, content : {<<>>, <<"Here is what I found.">>}]

\* the message of a tool-augmented completion: requested calls, or content,
\* which is null or empty when the provider has nothing to say
RequestedCalls ==
    { <<>>,
      <<[name |-> "search_products", json |-> "object",
         arguments |-> [NoArgs EXCEPT !["query"] = PyStr("headphones")]]>>,
      <<[name |-> "search_products", json |-> "object",
         arguments |-> [NoArgs EXCEPT !["query"] = PyStr("shoes")]],
        [name |-> "get_user_orders", json |-> "object", arguments |-> NoArgs]>>,
      <<[name |-> "get_product_details", json |-> "invalid", arguments |-> NoArgs]>>,
      <<[name |-> "cancel_order", json |-> "array", arguments |-> NoArgs]>> }

ToolAnswers ==
    [transport : {"ok", "error"}, tool_calls : RequestedCalls,
     content : {<<>>, <<"Here is what I found.">>}]

GatewayIdle == llmOut.op = "none"

ClassifyIntent(answer) ==
    /\ GatewayIdle
    /\ llmOut' = [op |-> "classify_intent", answer |-> answer,
                  out |-> classify_intent(answer)]
    /\ UNCHANGED <<products, pcIndex, orders, searchOut, toolOut, chatVars>>

GenerateResponse(tool_results, answer) ==
    /\ GatewayIdle
    /\ llmOut' = [op |-> "generate_response", tool_results |-> tool_results,
                  answer |-> answer, out |-> generate_response(tool_results, answer)]
    /\ UNCHANGED <<products, pcIndex, orders, searchOut, toolOut, chatVars>>

CallWithTools(answer) ==
    /\ GatewayIdle
    /\ llmOut' = [op |-> "call_with_tools", answer |-> answer,
                  out |-> call_with_tools(answer)]
    /\ UNCHANGED <<products, pcIndex, orders, searchOut, toolOut, chatVars>>

\* the orchestrator takes what the gateway returned
GatewayReturn ==
    /\ ~GatewayIdle
    /\ llmOut' = NoCall
    /\ UNCHANGED <<products, pcIndex, orders, searchOut, toolOut, chatVars>>

InitGateway ==
    /\ InitStore
    /\ searchOut = NoCall
    /\ toolOut = NoCall
    /\ llmOut = NoCall
    /\ InitChat

NextGateway ==
    \/ \E answer \in ClassifyAnswers : ClassifyIntent(answer)
    \/ \E tool_results \in ToolResultLists, answer \in TextAnswers :
            GenerateResponse(tool_results, answer)
    \/ \E answer \in ToolAnswers : CallWithTools(answer)
    \/ GatewayReturn

SpecGateway == InitGateway /\ [][NextGateway]_vars

---------------------------------------------------------------------------
(* Conversation store: sessions and messages (agent_service.py, models.py). *)
(* The uuid string of the session at position k is held as PyInt(k).         *)

HistoryLimit == 20
MaxToolIterations == 3
MaxSuggestions == 5

\* ConversationSession(user_id=user_id, is_active=True)
SessionRow(user_id, is_active) == [user_id |-> user_id, is_active |-> is_active]

\* filter(ConversationSession.id == session_id, is_active == True).first()
ActiveSession(session_id) ==
    IF /\ Truthy(session_id)
       /\ session_id.t = "int"
       /\ session_id.n \in 1..Len(sessions)
       /\ sessions[session_id.n].is_active
    THEN session_id.n ELSE 0

\* a lookup that forgets the is_active filter
SessionToUseAnyRow(session_id) ==
    IF Truthy(session_id) /\ session_id.t = "int" /\ session_id.n \in 1..Len(sessions)
    THEN session_id.n ELSE Len(sessions) + 1

\* _get_or_create_session: the session found, or the position of the new row
SessionToUse(session_id) ==
    IF ActiveSession(session_id) # 0 THEN ActiveSession(session_id)
    ELSE Len(sessions) + 1

\* a resolution that closes the caller's other sessions when it opens one
SessionsAfterResolveClosingOthers(session, user_id) ==
    IF session <= Len(sessions) THEN sessions
    ELSE Append([i \in 1..Len(sessions) |->
                    IF sessions[i].user_id = user_id
                    THEN SessionRow(user_id, FALSE) ELSE sessions[i]],
                SessionRow(user_id, TRUE))

\* the sessions table after _get_or_create_session
SessionsAfterResolve(session, user_id) ==
    IF session <= Len(sessions) THEN sessions
    ELSE Append(sessions, SessionRow(user_id, TRUE))

\* the order in which the database returns rows of equal created_at under
\* ORDER BY created_at DESC: by ascending or by descending row id
TieOrders == {"asc", "desc"}

\* order_by(ConversationMessage.created_at.desc()): the number of rows of the
\* session that the query returns before row i
RowsBefore(rows, i, tie) ==
    Cardinality({j \in 1..Len(rows) :
        \/ rows[j].created_at > rows[i].created_at
        \/ /\ rows[j].created_at = rows[i].created_at
           /\ IF tie = "asc" THEN j < i ELSE j > i})

NewestFirst(rows, tie) ==
    [k \in 1..Len(rows) |->
        rows[CHOOSE i \in 1..Len(rows) : RowsBefore(rows, i, tie) = k - 1]]

\* list(reversed(messages))
Reversed(seq) == [k \in 1..Len(seq) |-> seq[Len(seq) + 1 - k]]

\* filter(session_id == session_id).order_by(created_at.desc()).limit(limit)
\* .all(), then reversed: the rows that _get_conversation_history reads
HistoryRows(session, limit, tie) ==
    Reversed(PySliceTo(NewestFirst(SelectSeq(messages,
                                             LAMBDA m : m.session_id = session), tie),
                       limit))

\* _get_conversation_history: the rows as {role, content}
get_conversation_history(session, limit, tie) ==
    [i \in 1..Len(HistoryRows(session, limit, tie)) |->
        [role |-> HistoryRows(session, limit, tie)[i].role,
         content |-> HistoryRows(session, limit, tie)[i].content]]

\* ConversationMessage row; an empty tool_calls or tool_results is NULL;
\* created_at is datetime.utcnow() at the insert
MessageRow(session, role, content, intent, entities, tool_calls, tool_results, created_at) ==
    [session_id |-> session, role |-> role, content |-> content, intent |-> intent,
     entities |-> entities, tool_calls |-> tool_calls, tool_results |-> tool_results,
     created_at |-> created_at]

\* datetime.utcnow() of the newest row
LastStamp == IF messages = <<>> THEN 0 ELSE messages[Len(messages)].created_at

\* datetime.utcnow() once time has passed since the newest row was written
LaterStamp == LastStamp + 1

\* json.dumps(tool_results), called without default=: the product dicts of
\* ProductResponse.model_dump() keep created_at as a datetime, the order
\* dicts carry created_at.isoformat()
JsonSerializable(tool_results) ==
    \A i \in 1..Len(tool_results) :
        \A j \in 1..Len(tool_results[i].result.items) :
            ~({"id", "created_at"} \subseteq tool_results[i].result.items[j].keys)

\* _save_message: the messages table after the insert, or the TypeError of
\* json.dumps
save_message(session, role, content, intent, entities, tool_calls, tool_results, now) ==
    IF ~JsonSerializable(tool_results)
    THEN Raised(<<"Object of type datetime is not JSON serializable">>, {})
    ELSE Returned(Append(messages, MessageRow(session, role, content, intent, entities,
                                              tool_calls, tool_results, now)),
                  {"messages"})

---------------------------------------------------------------------------
(* Agent orchestrator: ShopAgent.process_message, one step per gateway call *)
(* or await point                                                           *)

\* _get_follow_up_questions
get_follow_up_questions(intent) ==
    IF intent \in {"product_search", "product_recommendation"}
    THEN <<"Would you like me to filter by price range?", "Should I show more options?",
           "Want details about any of these products?">>
    ELSE IF intent = "product_details"
    THEN <<"Would you like to see similar products?", "Any questions about this product?">>
    ELSE <<>>

\* a branching that sends every other intent to the tool loop
BranchOfLoopByDefault(intent) ==
    IF intent \in {"greeting", "farewell"} THEN "direct"
    ELSE IF intent \in {"order_help", "order_status"} THEN "order"
    ELSE "tool_loop"

\* the branch of process_message an intent takes
BranchOf(intent) ==
    IF intent \in {"greeting", "farewell"} THEN "direct"
    ELSE IF intent \in {"product_search", "product_recommendation", "product_details"}
    THEN "tool_loop"
    ELSE IF intent \in {"order_help", "order_status"} THEN "order"
    ELSE "direct"

\* the tool results as the gateway is given them: None or a list
ContextOf(accumulated) ==
    IF accumulated = <<>> THEN NoToolResults ELSE ToolResults(accumulated)

\* the locals of process_message after session and history are resolved
StartedTurn(session_id, user_id, session, tie) ==
    [pc |-> "classify",
     request |-> [session_id |-> session_id, user_id |-> user_id],
     before |-> [sessions |-> Len(sessions), messages |-> Len(messages)],
     session |-> session,
     history |-> IF session <= Len(sessions)
                 THEN get_conversation_history(session, HistoryLimit, tie)
                 ELSE <<>>,
     intent |-> "", entities |-> EmptyEntities, iteration |-> 0, response |-> <<>>,
     tool_calls_made |-> <<>>, tool_results |-> <<>>, suggestions |-> <<>>,
     accumulated_results |-> <<>>, gateway |-> <<>>, error |-> <<>>,
     http |-> [status |-> 0]]

\* an exception leaves process_message
Aborted(t, exc) == [t EXCEPT !.pc = "aborted", !.error = exc]

\* one gateway call of the turn is noted: the method, the tool context it was
\* given, whether the provider call failed, and what the method returned
LoggedCall(t, op, context, answer, out) ==
    [t EXCEPT !.gateway = Append(@, [op |-> op, context |-> context,
                                     failed |-> answer.transport # "ok", out |-> out])]

\* classify_intent returned: the user message is saved with intent and
\* entities, and the branch is chosen
ClassifiedTurn(t, out, saved) ==
    IF out.raised THEN Aborted(t, out.exc)
    ELSE IF saved.raised THEN Aborted(t, saved.exc)
    ELSE [t EXCEPT !.intent = out.value.intent, !.entities = out.value.entities,
                   !.pc = BranchOf(out.value.intent)]

UserText == <<"user message">>

\* a turn that forgets to save the user message
SaveUserMessageSkipped(t, out) == Returned(messages, {})

\* the classification call lies between the newest row and this insert
SaveUserMessage(t, out) ==
    IF out.raised THEN Raised(out.exc, {})
    ELSE save_message(t.session, "user", UserText, out.value.intent, out.value.entities,
                      <<>>, <<>>, LaterStamp)

\* the messages table after a save that returned or raised
MessagesAfter(saved) == IF saved.raised THEN messages ELSE saved.value

\* response = await self.llm_service.generate_response(...)
AfterGenerate(t, out) ==
    IF out.raised THEN Aborted(t, out.exc)
    ELSE [t EXCEPT !.response = out.value, !.pc = "persist"]

\* the suggestions one tool result adds: its first five list items that carry
\* an id and whose product row exists
\* an extraction that takes every item of a result
CarriesAnything(item) == TRUE

CarriesProduct(item) == "id" \in item.keys /\ ProductRow(PyInt(item.id)) # 0

\* an extraction that takes the items of the tool payload as they are
SuggestionsOfPayload(result) ==
    IF result.success /\ result.result.kind \in {"list", "dict"}
    THEN result.result.items
    ELSE <<>>

\* ProductResponse.model_validate(product) of each such item
SuggestionsOf(result) ==
    IF result.success /\ result.result.kind = "list"
    THEN [i \in 1..Len(SelectSeq(PySliceTo(result.result.items, MaxSuggestions),
                                 CarriesProduct)) |->
            ProductDict(SelectSeq(PySliceTo(result.result.items, MaxSuggestions),
                                  CarriesProduct)[i].id)]
    ELSE <<>>

\* a dispatch that notes the newest tool name first
AfterToolCallNameFirst(t, tool_call, out, suggest) ==
    IF out.raised THEN Aborted(t, out.exc)
    ELSE [t EXCEPT !.tool_results = Append(@, out.value),
                   !.tool_calls_made = <<tool_call.tool_name>> \o @,
                   !.accumulated_results =
                        Append(@, [keys |-> {"tool", "result"},
                                   name |-> tool_call.tool_name,
                                   result |-> out.value.result]),
                   !.suggestions = IF suggest THEN @ \o SuggestionsOf(out.value) ELSE @]

\* the locals after one executed tool call
AfterToolCall(t, tool_call, out, suggest) ==
    IF out.raised THEN Aborted(t, out.exc)
    ELSE [t EXCEPT !.tool_results = Append(@, out.value),
                   !.tool_calls_made = Append(@, tool_call.tool_name),
                   !.accumulated_results =
                        Append(@, [keys |-> {"tool", "result"},
                                   name |-> tool_call.tool_name,
                                   result |-> out.value.result]),
                   !.suggestions = IF suggest THEN @ \o SuggestionsOf(out.value) ELSE @]

\* for tool_call in llm_response.tool_calls: executed one at a time, in order
RECURSIVE ExecuteCalls(_, _, _, _)
ExecuteCalls(t, calls, env, suggest) ==
    IF calls = <<>> \/ t.pc = "aborted" THEN t
    ELSE ExecuteCalls(AfterToolCall(t, Head(calls),
                                    execute_tool(Head(calls).tool_name,
                                                 Head(calls).arguments,
                                                 t.request.user_id, env),
                                    suggest),
                      Tail(calls), env, suggest)

\* a tool loop that forgets iteration += 1
NextIterationStuck(t) ==
    IF t.pc = "aborted" THEN t ELSE [t EXCEPT !.pc = "tool_loop"]

\* iteration += 1 and the test of the while loop; a loop left without a
\* response goes to the fallback generate_response
NextIteration(t) ==
    IF t.pc = "aborted" THEN t
    ELSE [t EXCEPT !.iteration = t.iteration + 1,
                   !.pc = IF t.iteration + 1 < MaxToolIterations THEN "tool_loop"
                          ELSE "fallback"]

\* one round of the tool loop after call_with_tools returned
AfterCallWithTools(t, out, env) ==
    IF out.raised THEN Aborted(t, out.exc)
    ELSE IF ~out.value.tool_calls.none /\ out.value.tool_calls.items # <<>>
    THEN NextIteration(ExecuteCalls(t, out.value.tool_calls.items, env, TRUE))
    ELSE IF out.value.content # <<>>
    THEN [t EXCEPT !.response = out.value.content, !.pc = "persist"]
    ELSE [t EXCEPT !.pc = "fallback"]

\* an order branch that lists the caller's orders before it looks at the
\* order id
OrderCallsUserFirst(t) ==
    IF Truthy(t.request.user_id)
    THEN <<[tool_name |-> "get_user_orders", arguments |-> NoArgs]>>
    ELSE IF Truthy(PyInt(t.entities.order_id))
    THEN <<[tool_name |-> "check_order_status",
            arguments |-> [NoArgs EXCEPT !["order_id"] = PyInt(t.entities.order_id)]]>>
    ELSE <<>>

\* the order branch: at most one tool call
OrderCalls(t) ==
    IF Truthy(PyInt(t.entities.order_id))
    THEN <<[tool_name |-> "check_order_status",
            arguments |-> [NoArgs EXCEPT !["order_id"] = PyInt(t.entities.order_id)]]>>
    ELSE IF Truthy(t.request.user_id)
    THEN <<[tool_name |-> "get_user_orders", arguments |-> NoArgs]>>
    ELSE <<>>

ToOrderRespond(t) == IF t.pc = "aborted" THEN t ELSE [t EXCEPT !.pc = "order_respond"]

\* the assistant message is saved
PersistedTurn(t, saved) ==
    IF saved.raised THEN Aborted(t, saved.exc) ELSE [t EXCEPT !.pc = "done"]

\* a gateway call lies between the user message and this insert
SaveAssistantMessage(t) ==
    save_message(t.session, "assistant", t.response, "", EmptyEntities,
                 t.tool_calls_made, t.tool_results, LaterStamp)

\* a bundle that offers follow-up questions only when a tool succeeded
ResponseBundleFollowUpsOnSuccess(t) ==
    [response |-> t.response, session_id |-> t.session, intent |-> t.intent,
     entities |-> t.entities,
     suggestions |-> PySliceTo(t.suggestions, MaxSuggestions),
     tool_calls_made |-> t.tool_calls_made,
     follow_up_questions |->
        IF \E i \in 1..Len(t.tool_results) : t.tool_results[i].success
        THEN get_follow_up_questions(t.intent) ELSE <<>>]

\* AgentChatResponse(...): an empty list stands for None
ResponseBundle(t) ==
    [response |-> t.response, session_id |-> t.session, intent |-> t.intent,
     entities |-> t.entities,
     suggestions |-> PySliceTo(t.suggestions, MaxSuggestions),
     tool_calls_made |-> t.tool_calls_made,
     follow_up_questions |-> get_follow_up_questions(t.intent)]

\* chat_with_agent: the bundle, or HTTPException(500, "Chat error: " + str(e))
HttpReply(t) ==
    IF t.pc = "done"
    THEN [status |-> 200, body |-> ResponseBundle(t), detail |-> <<>>]
    ELSE [status |-> 500,
          body |-> [response |-> <<>>, session_id |-> 0, intent |-> "",
                    entities |-> EmptyEntities, suggestions |-> <<>>,
                    tool_calls_made |-> <<>>, follow_up_questions |-> <<>>],
          detail |-> <<"Chat error: ">> \o t.error]

---------------------------------------------------------------------------
(* One turn of the chat endpoint, from the request to its reply *)

\* a request arrives: session and history are resolved (lines 461-462)
ReceiveMessage(session_id, user_id, tie) ==
    /\ turn.pc = "idle"
    /\ sessions' = SessionsAfterResolve(SessionToUse(session_id), user_id)
    /\ turn' = StartedTurn(session_id, user_id, SessionToUse(session_id), tie)
    /\ UNCHANGED <<products, pcIndex, orders, searchOut, toolOut, llmOut,
                   historyOut, turns, messages>>

\* classify_intent, then the user message is saved (lines 463-478)
Classify(answer) ==
    /\ turn.pc = "classify"
    /\ messages' = MessagesAfter(SaveUserMessage(turn, classify_intent(answer)))
    /\ turn' = ClassifiedTurn(LoggedCall(turn, "classify_intent", NoToolResults, answer,
                                         classify_intent(answer)),
                              classify_intent(answer),
                              SaveUserMessage(turn, classify_intent(answer)))
    /\ UNCHANGED <<products, pcIndex, orders, searchOut, toolOut, llmOut,
                   historyOut, turns, sessions>>

\* greeting, farewell and the else branch: generate_response without tool
\* results (lines 480-485, 585-590)
DirectResponse(answer) ==
    /\ turn.pc = "direct"
    /\ turn' = AfterGenerate(LoggedCall(turn, "generate_response", NoToolResults, answer,
                                        generate_response(NoToolResults, answer)),
                             generate_response(NoToolResults, answer))
    /\ UNCHANGED <<products, pcIndex, orders, searchOut, toolOut, llmOut,
                   historyOut, turns, sessions, messages>>

\* one iteration of the while loop (lines 495-540)
ToolRound(answer, env) ==
    /\ turn.pc = "tool_loop"
    /\ turn.iteration < MaxToolIterations
    /\ turn' = AfterCallWithTools(
                    LoggedCall(turn, "call_with_tools",
                               ContextOf(turn.accumulated_results), answer,
                               call_with_tools(answer)),
                    call_with_tools(answer), env)
    /\ UNCHANGED <<products, pcIndex, orders, searchOut, toolOut, llmOut,
                   historyOut, turns, sessions, messages>>

\* if not response: generate_response on the accumulated results (542-548)
Fallback(answer) ==
    /\ turn.pc = "fallback"
    /\ turn' = AfterGenerate(
                    LoggedCall(turn, "generate_response",
                               ToolResults(turn.accumulated_results), answer,
                               generate_response(ToolResults(turn.accumulated_results),
                                                 answer)),
                    generate_response(ToolResults(turn.accumulated_results), answer))
    /\ UNCHANGED <<products, pcIndex, orders, searchOut, toolOut, llmOut,
                   historyOut, turns, sessions, messages>>

\* the order branch up to its tool call (lines 550-576)
OrderLookup(env) ==
    /\ turn.pc = "order"
    /\ turn' = ToOrderRespond(ExecuteCalls(turn, OrderCalls(turn), env, FALSE))
    /\ UNCHANGED <<products, pcIndex, orders, searchOut, toolOut, llmOut,
                   historyOut, turns, sessions, messages>>

\* the order branch's generate_response (lines 578-583)
OrderRespond(answer) ==
    /\ turn.pc = "order_respond"
    /\ turn' = AfterGenerate(
                    LoggedCall(turn, "generate_response",
                               ToolResults(turn.accumulated_results), answer,
                               generate_response(ToolResults(turn.accumulated_results),
                                                 answer)),
                    generate_response(ToolResults(turn.accumulated_results), answer))
    /\ UNCHANGED <<products, pcIndex, orders, searchOut, toolOut, llmOut,
                   historyOut, turns, sessions, messages>>

\* the assistant message is saved and the bundle built (lines 592-611)
SaveAssistant ==
    /\ turn.pc = "persist"
    /\ messages' = MessagesAfter(SaveAssistantMessage(turn))
    /\ turn' = PersistedTurn(turn, SaveAssistantMessage(turn))
    /\ UNCHANGED <<products, pcIndex, orders, searchOut, toolOut, llmOut,
                   historyOut, turns, sessions>>

\* the endpoint answers the request
ChatReturn ==
    /\ turn.pc \in {"done", "aborted"}
    /\ turn' = [turn EXCEPT !.pc = "replied", !.http = HttpReply(turn)]
    /\ UNCHANGED <<products, pcIndex, orders, searchOut, toolOut, llmOut,
                   historyOut, turns, sessions, messages>>

\* the provider's classifications; an order intent comes with no order id,
\* a known one or an unknown one
TurnClassifyAnswers ==
    { [transport |-> "error", json |-> "object", intent |-> PyStr("greeting"),
       entities |-> [t |-> "absent", order_id |-> 0], confidence |-> Absent,
       requires_clarification |-> "absent", clarification_question |-> <<>>] }
    \cup
    UNION { [transport : {"ok"}, json : {"object"}, intent : {PyStr(i)},
             entities : IF i \in {"order_help", "order_status"}
                        THEN {[t |-> "dict", order_id |-> 0],
                              [t |-> "dict", order_id |-> 1],
                              [t |-> "dict", order_id |-> 99]}
                        ELSE {[t |-> "dict", order_id |-> 0]},
             confidence : {PyInt(90)},
             requires_clarification : {"false"}, clarification_question : {<<>>}]
            : i \in Intents }

\* the provider's answers inside the tool loop: those of the gateway that
\* name registered tools, a listing of the caller's orders, and a product
\* and an order looked up by id
TurnToolAnswers ==
    { a \in ToolAnswers :
        /\ a.tool_calls # <<>> => a.content = <<>> /\ a.transport = "ok"
        /\ a.transport = "error" => a.content = <<>>
        /\ \A i \in 1..Len(a.tool_calls) :
                a.tool_calls[i].json = "object" /\ a.tool_calls[i].name \in RegisteredTools }
    \cup
    [transport : {"ok"}, content : {<<>>},
     tool_calls :
        { <<[name |-> "get_user_orders", json |-> "object", arguments |-> NoArgs]>>,
          <<[name |-> "get_product_details", json |-> "object",
             arguments |-> [NoArgs EXCEPT !["product_id"] = PyInt(1)]],
            [name |-> "check_order_status", json |-> "object",
             arguments |-> [NoArgs EXCEPT !["order_id"] = PyInt(1)]]>> }]

TurnEnvs == {e \in Envs : e.tie = "asc"}

\* the state a request finds: one order per user in turn; an active session
\* of user 1 with one exchange, and a session that was closed
InitTurn ==
    /\ \E st \in {StoreLive, StoreBare} :
        products = st.products /\ pcIndex = st.index
    /\ orders = [i \in 1..MaxOrders |->
                    [user_id |-> ((i - 1) % 2) + 1, status |-> "pending"]]
    /\ searchOut = NoCall
    /\ toolOut = NoCall
    /\ llmOut = NoCall
    /\ sessions = <<SessionRow(PyInt(1), TRUE), SessionRow(PyNone, FALSE)>>
    /\ messages =
        << MessageRow(1, "user", UserText, "greeting", EmptyEntities, <<>>, <<>>, 1),
           MessageRow(1, "assistant", <<"Hello!">>, "", EmptyEntities, <<>>, <<>>, 2),
           MessageRow(2, "user", UserText, "farewell", EmptyEntities, <<>>, <<>>, 3) >>
    /\ turn = NoTurn
    /\ historyOut = NoCall
    /\ turns = <<>>

NextTurn ==
    \/ \E session_id \in {PyNone, PyInt(1), PyInt(2), PyInt(99)},
          user_id \in {PyNone, PyInt(1)}, tie \in TieOrders :
            ReceiveMessage(session_id, user_id, tie)
    \/ \E answer \in TurnClassifyAnswers : Classify(answer)
    \/ \E answer \in TextAnswers : DirectResponse(answer)
    \/ \E answer \in TurnToolAnswers, env \in TurnEnvs : ToolRound(answer, env)
    \/ \E answer \in TextAnswers : Fallback(answer)
    \/ \E env \in TurnEnvs : OrderLookup(env)
    \/ \E answer \in TextAnswers : OrderRespond(answer)
    \/ SaveAssistant
    \/ ChatReturn

SpecTurn == InitTurn /\ [][NextTurn]_vars

\* every await of process_message returns: the turn keeps taking steps
SpecTurnFair == SpecTurn /\ WF_vars(NextTurn)

---------------------------------------------------------------------------
(* The message log of the sessions, written and read back *)

MaxMessages == 3

\* the text of the n-th message written
TextOfMessage(n) == <<"message ", ToString(n)>>

\* _save_message on a session; the clock has ticked since the newest row was
\* written, or it has not
WriteMessage(session, role, ticked) ==
    /\ historyOut = NoCall
    /\ Len(messages) < MaxMessages
    /\ messages' = MessagesAfter(save_message(session, role,
                                              TextOfMessage(Len(messages) + 1), "",
                                              EmptyEntities, <<>>, <<>>,
                                              IF ticked THEN LaterStamp
                                              ELSE LastStamp))
    /\ UNCHANGED <<products, pcIndex, orders, searchOut, toolOut, llmOut,
                   sessions, turn, historyOut, turns>>

\* _get_conversation_history(db, session_id, limit)
ReadHistory(session, limit, tie) ==
    /\ historyOut = NoCall
    /\ historyOut' = [op |-> "get_conversation_history", session |-> session,
                      limit |-> limit, tie |-> tie,
                      out |-> get_conversation_history(session, limit, tie)]
    /\ UNCHANGED <<products, pcIndex, orders, searchOut, toolOut, llmOut,
                   sessions, messages, turn, turns>>

HistoryReturn ==
    /\ historyOut # NoCall
    /\ historyOut' = NoCall
    /\ UNCHANGED <<products, pcIndex, orders, searchOut, toolOut, llmOut,
                   sessions, messages, turn, turns>>

InitHistory ==
    /\ products = <<>>
    /\ pcIndex = {}
    /\ orders = <<>>
    /\ searchOut = NoCall
    /\ toolOut = NoCall
    /\ llmOut = NoCall
    /\ sessions = <<SessionRow(PyInt(1), TRUE), SessionRow(PyNone, TRUE)>>
    /\ messages = <<>>
    /\ turn = NoTurn
    /\ historyOut = NoCall
    /\ turns = <<>>

NextHistory ==
    \/ \E session \in 1..2, role \in {"user", "assistant"}, ticked \in BOOLEAN :
            WriteMessage(session, role, ticked)
    \/ \E session \in 1..2, limit \in {1, 2, HistoryLimit}, tie \in TieOrders :
            ReadHistory(session, limit, tie)
    \/ HistoryReturn

SpecHistory == InitHistory /\ [][NextHistory]_vars

---------------------------------------------------------------------------
(* Turns that run concurrently: each request is a coroutine of its own     *)
(* with its own database session; the steps are the points where          *)
(* process_message touches the conversation store.                         *)

MaxTurns == 2

\* the message of the k-th request and the response it is given
RequestText(k) == <<"message of request ", ToString(k)>>
ReplyText(k) == <<"reply to request ", ToString(k)>>

\* the messages in the store before any of the requests arrives: one
\* exchange in session 1
EarlierLog ==
    << MessageRow(1, "user", UserText, "greeting", EmptyEntities, <<>>, <<>>, 1),
       MessageRow(1, "assistant", <<"Hello!">>, "", EmptyEntities, <<>>, <<>>, 2) >>

\* a turn that writes to the newest session of the store
SessionOfNewest(t) == Len(sessions)

\* session.id of the turn's resolved session
SessionOf(t) == t.session

\* request k arrives: session and history are resolved (lines 461-462)
Arrive(k, session_id, user_id, tie) ==
    /\ turns[k].pc = "idle"
    /\ sessions' = SessionsAfterResolve(SessionToUse(session_id), user_id)
    /\ turns' = [turns EXCEPT ![k] =
                    [pc |-> "classify",
                     request |-> [session_id |-> session_id, user_id |-> user_id],
                     session |-> SessionToUse(session_id),
                     history |-> IF SessionToUse(session_id) <= Len(sessions)
                                 THEN get_conversation_history(SessionToUse(session_id),
                                                               HistoryLimit, tie)
                                 ELSE <<>>,
                     intent |-> ""]]
    /\ UNCHANGED <<products, pcIndex, orders, searchOut, toolOut, llmOut,
                   messages, turn, historyOut>>

\* classify_intent has returned and the user message is saved (463-472)
SaveUser(k, intent) ==
    /\ turns[k].pc = "classify"
    /\ messages' = MessagesAfter(save_message(SessionOf(turns[k]), "user",
                                              RequestText(k), intent, EmptyEntities,
                                              <<>>, <<>>, LaterStamp))
    /\ turns' = [turns EXCEPT ![k].pc = "respond", ![k].intent = intent]
    /\ UNCHANGED <<products, pcIndex, orders, searchOut, toolOut, llmOut,
                   sessions, turn, historyOut>>

\* the branch of the intent has produced the response and the assistant
\* message is saved (474-599), or an exception has left process_message
Respond(k, completes) ==
    /\ turns[k].pc = "respond"
    /\ messages' = IF completes
                   THEN MessagesAfter(save_message(SessionOf(turns[k]), "assistant",
                                                   ReplyText(k), "", EmptyEntities,
                                                   <<>>, <<>>, LaterStamp))
                   ELSE messages
    /\ turns' = [turns EXCEPT ![k].pc = IF completes THEN "done" ELSE "aborted"]
    /\ UNCHANGED <<products, pcIndex, orders, searchOut, toolOut, llmOut,
                   sessions, turn, historyOut>>

InitConcurrent ==
    /\ products = <<>>
    /\ pcIndex = {}
    /\ orders = <<>>
    /\ searchOut = NoCall
    /\ toolOut = NoCall
    /\ llmOut = NoCall
    /\ sessions = <<SessionRow(PyInt(1), TRUE), SessionRow(PyNone, FALSE)>>
    /\ messages = EarlierLog
    /\ turn = NoTurn
    /\ historyOut = NoCall
    /\ turns = [k \in 1..MaxTurns |-> NoTurn]

NextConcurrent ==
    \/ \E k \in 1..MaxTurns, session_id \in {PyNone, PyInt(1)},
          user_id \in {PyNone, PyInt(1)}, tie \in TieOrders :
            Arrive(k, session_id, user_id, tie)
    \/ \E k \in 1..MaxTurns, intent \in {"greeting", "product_search"} :
            SaveUser(k, intent)
    \/ \E k \in 1..MaxTurns, completes \in BOOLEAN : Respond(k, completes)

SpecConcurrent == InitConcurrent /\ [][NextConcurrent]_vars

---------------------------------------------------------------------------
(* Claims on the tool execution layer, checked under SpecTools *)

ToolCalled == toolOut.op = "execute_tool"
ToolValue == toolOut.out.value

\* C1: execute_tool is total. Whatever the tool name, the arguments, the caller
\* and the failure of the index or the store, it returns one ToolResult for
\* the tool it was asked to run and raises nothing; an exception raised in
\* the body comes back as a failed ToolResult carrying the exception text.
C1_ExecuteToolTotal ==
    ToolCalled =>
        /\ ~toolOut.out.raised
        /\ ToolValue.tool_name = toolOut.tool_name
        /\ ToolValue.success \in BOOLEAN
        /\ ToolBody(toolOut.tool_name, toolOut.arguments, toolOut.user_id,
                    toolOut.env).raised
            => /\ ~ToolValue.success
               /\ ToolValue.error_message.text =
                    ToolBody(toolOut.tool_name, toolOut.arguments, toolOut.user_id,
                             toolOut.env).exc

\* C1 witness: the index failed under search_products and the call returned a
\* failed ToolResult with the exception text.
C1_Witness ==
    /\ ToolCalled
    /\ toolOut.tool_name = "search_products"
    /\ toolOut.env.fail = "pinecone"
    /\ ~toolOut.out.raised
    /\ ~ToolValue.success
    /\ ToolValue.error_message.text = <<"PineconeException">>

\* a call that leaves out a required parameter of the tool or gives a
\* declared parameter a value of the wrong JSON type
MissingRequired(tool_name, arguments) ==
    \E k \in ToolSchema(tool_name).required : arguments[k].t = "absent"
Malformed(tool_name, arguments) ==
    \/ \E k \in ToolSchema(tool_name).strings : arguments[k].t \notin {"absent", "str"}
    \/ \E k \in ToolSchema(tool_name).numbers : arguments[k].t \notin {"absent", "int"}

\* C2: a registered tool called with a missing required argument or with
\* malformed arguments returns success = false and a non-empty error message.
C2_BadArgumentsFail ==
    ( /\ ToolCalled
      /\ toolOut.tool_name \in RegisteredTools
      /\ \/ MissingRequired(toolOut.tool_name, toolOut.arguments)
         \/ Malformed(toolOut.tool_name, toolOut.arguments) )
    => /\ ~ToolValue.success
       /\ ~ToolValue.error_message.none
       /\ ToolValue.error_message.text # <<>>

\* C3: a name that is no registered tool gives success = false, no result, an
\* error message that contains the name, and touches neither store nor index.
C3_UnknownToolRejected ==
    (ToolCalled /\ toolOut.tool_name \notin RegisteredTools) =>
        /\ ~toolOut.out.raised
        /\ ~ToolValue.success
        /\ ToolValue.result = NoResult
        /\ \E i \in 1..Len(ToolValue.error_message.text) :
                ToolValue.error_message.text[i] = toolOut.tool_name
        /\ toolOut.out.touched = {}

\* C3 witness: the unregistered tool cancel_order was called, with arguments,
\* while the store was failing.
C3_Witness ==
    /\ ToolCalled
    /\ toolOut.tool_name = "cancel_order"
    /\ toolOut.arguments["order_id"] = PyInt(1)
    /\ toolOut.env.fail = "db"
    /\ ToolValue.error_message.text = <<"Unknown tool: ", "cancel_order">>

\* C4: a ToolResult carries a result or an error message, never both: success
\* means a result and no error message, failure means no result and an error
\* message.
C4_ResultXorError ==
    ToolCalled =>
        /\ ToolValue.success =>
            ToolValue.error_message.none /\ ToolValue.result.kind # "none"
        /\ ~ToolValue.success =>
            ToolValue.result = NoResult /\ ~ToolValue.error_message.none

\* C4 witness: check_order_status without order_id fails inside the body and
\* returns the failure with no result.
C4_Witness ==
    /\ ToolCalled
    /\ toolOut.tool_name = "check_order_status"
    /\ toolOut.arguments = NoArgs
    /\ ~ToolValue.success
    /\ ToolValue.result = NoResult
    /\ ToolValue.error_message = Message(<<"'order_id'">>)

\* C5: get_user_orders for a guest fails with the log-in message and reads no
\* order; for caller u every order it returns is an order of u.
C5_UserOrdersScoped ==
    (ToolCalled /\ toolOut.tool_name = "get_user_orders") =>
        /\ ~Truthy(toolOut.user_id) =>
            /\ ~ToolValue.success
            /\ ToolValue.error_message.text = <<"Please log in to view your orders">>
            /\ toolOut.out.touched = {}
        /\ (Truthy(toolOut.user_id) /\ ToolValue.success) =>
            \A i \in 1..Len(ToolValue.result.items) :
                orders[ToolValue.result.items[i].order_id].user_id = toolOut.user_id.n

\* C5 witness: user 1 asked for the orders while the store held an order of
\* user 1 and an order of user 2, and got a non-empty list.
C5_Witness ==
    /\ ToolCalled
    /\ toolOut.tool_name = "get_user_orders"
    /\ toolOut.user_id = PyInt(1)
    /\ \E i, j \in 1..Len(orders) : orders[i].user_id = 1 /\ orders[j].user_id = 2
    /\ ToolValue.success
    /\ ToolValue.result.items # <<>>

\* the limit a tool call asks for
LimitOf(arguments) == ArgGet(arguments, "limit", PyInt(DefaultLimit))

\* the call reaches the retrieval service with a result count
AsksRetrieval(tool_name, arguments) ==
    /\ LimitOf(arguments).t = "int"
    /\ \/ tool_name = "search_products"
       \/ /\ tool_name = "get_recommendations"
          /\ \/ Truthy(arguments["product_id"])
             \/ Truthy(arguments["preferences"])
             \/ Truthy(arguments["category"])

\* C23: every tool that accepts a requested result count clamps it: the
\* top_k that execute_tool asks of the retrieval service never exceeds 10,
\* for search_products and for get_recommendations alike.
C23_LimitClamped ==
    (toolOut.op = "execute_tool" /\ AsksRetrieval(toolOut.tool_name, toolOut.arguments)) =>
        /\ toolOut.tool_name = "search_products" =>
                SearchTopK(LimitOf(toolOut.arguments)).n <= MaxLimit
        /\ toolOut.tool_name = "get_recommendations" =>
                RecommendationsTopK(LimitOf(toolOut.arguments)).n <= MaxLimit

\* C29: the outcome of check_order_status does not depend on who calls: for
\* an order that is in the store a guest, the owner and any other user get
\* the same successful result with the order's id, status, total amount,
\* creation time and shipping address; no ownership check is applied.
C29_OrderStatusIgnoresCaller ==
    (toolOut.op = "execute_tool" /\ toolOut.tool_name = "check_order_status") =>
        /\ \A uid \in CallerIds :
                execute_tool(toolOut.tool_name, toolOut.arguments, uid, toolOut.env)
                    = toolOut.out
        /\ (OrderRow(toolOut.arguments["order_id"]) # 0 /\ toolOut.env.fail # "db") =>
             /\ ~toolOut.out.raised
             /\ toolOut.out.value.success
             /\ toolOut.out.value.result.kind = "dict"
             /\ toolOut.out.value.result.items[1].keys
                    = {"order_id", "status", "total_amount", "created_at",
                       "shipping_address"}
             /\ toolOut.out.value.result.items[1].order_id
                    = toolOut.arguments["order_id"].n
             /\ toolOut.out.value.result.items[1].status
                    = orders[toolOut.arguments["order_id"].n].status

\* C29 witness: user 2 asked for the status of an order of user 1 and got it.
C29_Witness ==
    /\ toolOut.op = "execute_tool"
    /\ toolOut.tool_name = "check_order_status"
    /\ toolOut.user_id = PyInt(2)
    /\ toolOut.arguments["order_id"] = PyInt(1)
    /\ Len(orders) >= 1
    /\ orders[1].user_id = 1
    /\ toolOut.out.value.success

---------------------------------------------------------------------------
(* Claims on the gateway, checked under SpecGateway *)

\* the provider call failed, or its answer does not parse: no JSON object,
\* entities that do not validate, a confidence that is no number
ClassifyFails(answer) ==
    \/ answer.transport # "ok"
    \/ answer.json # "object"
    \/ answer.entities.t \in {"bad", "none"}
    \/ answer.confidence.t = "none"
    \/ answer.confidence = PyStr("high")

\* C6: classify_intent never raises; on a transport failure or an answer that
\* does not parse it returns intent unknown, confidence 0.0, empty entities,
\* requires_clarification true and the generic question; the intent it
\* returns is always a member of Intent, an unrecognised string being unknown.
C6_ClassifyNeverRaises ==
    llmOut.op = "classify_intent" =>
        /\ ~llmOut.out.raised
        /\ llmOut.out.value.intent \in Intents
        /\ ClassifyFails(llmOut.answer) => llmOut.out.value = ClassifyFallback
        /\ (llmOut.answer.intent.t # "str" \/ llmOut.answer.intent.s \notin Intents)
            => llmOut.out.value.intent = "unknown"

\* C6 witness: the provider answered a JSON object with a known intent, an
\* order id and the confidence "high", and the fallback came back.
C6_Witness ==
    /\ llmOut.op = "classify_intent"
    /\ llmOut.answer.transport = "ok"
    /\ llmOut.answer.json = "object"
    /\ llmOut.answer.intent = PyStr("order_status")
    /\ llmOut.answer.entities = [t |-> "dict", order_id |-> 1]
    /\ llmOut.answer.confidence = PyStr("high")
    /\ ~llmOut.out.raised
    /\ llmOut.out.value = ClassifyFallback

\* C7: generate_response never raises, whatever tool results it is given,
\* the list of {tool, result} entries of the orchestrator included; it returns
\* a text, and the fixed apology when the provider call fails.
C7_GenerateResponseNeverRaises ==
    llmOut.op = "generate_response" =>
        /\ ~llmOut.out.raised
        /\ llmOut.answer.transport # "ok" => llmOut.out.value = Apology

\* C8: call_with_tools returns either a non-empty list of tool invocations
\* with empty text, or non-empty text with no invocation, never both empty;
\* on a provider failure it returns a non-empty text and no invocation.
C8_ExactlyOnePopulated ==
    llmOut.op = "call_with_tools" =>
        LET r == llmOut.out.value
            calls == ~r.tool_calls.none /\ r.tool_calls.items # <<>>
        IN /\ ~llmOut.out.raised
           /\ \/ calls /\ r.content = <<>>
              \/ ~calls /\ r.content # <<>>
           /\ llmOut.answer.transport # "ok" => ~calls /\ r.content # <<>>

---------------------------------------------------------------------------
(* Claims on the orchestrator, checked under SpecTurn *)

InTurn == turn.pc # "idle"

\* the supplied identifier names a session that existed before the turn
SuppliedKnown ==
    /\ turn.request.session_id.t = "int"
    /\ turn.request.session_id.n \in 1..turn.before.sessions

\* the messages the turn has added so far
TurnMessages == SubSeq(messages, turn.before.messages + 1, Len(messages))

\* the gateway calls of one method made so far in the turn
GatewayCallsOf(op) == SelectSeq(turn.gateway, LAMBDA c : c.op = op)

\* C13: a supplied identifier of an existing active session makes the turn use
\* that session and create none; in every other case (no identifier, unknown
\* identifier, inactive session) the turn creates a new active session with a
\* fresh identifier and empty history, raises no error, and the inactive
\* session is neither reused nor reactivated.
C13_SessionResolution ==
    InTurn =>
        IF SuppliedKnown /\ sessions[turn.request.session_id.n].is_active
        THEN /\ turn.session = turn.request.session_id.n
             /\ Len(sessions) = turn.before.sessions
        ELSE /\ Len(sessions) = turn.before.sessions + 1
             /\ turn.session = Len(sessions)
             /\ sessions[turn.session] = SessionRow(turn.request.user_id, TRUE)
             /\ turn.history = <<>>
             /\ \A i \in 1..turn.before.messages : messages[i].session_id # turn.session
             /\ turn.pc = "classify" => turn.error = <<>>
             /\ SuppliedKnown =>
                    /\ ~sessions[turn.request.session_id.n].is_active
                    /\ turn.session # turn.request.session_id.n

\* C13 witness: the request named the closed session 2 and the turn runs on
\* a new session 3 while session 2 stays closed.
C13_Witness ==
    /\ turn.pc = "classify"
    /\ turn.request.session_id = PyInt(2)
    /\ turn.session = 3
    /\ Len(sessions) = 3
    /\ ~sessions[2].is_active
    /\ sessions[3].is_active

\* C14: the user message, with the classified intent and entities, is in the
\* session's log after classification and before any response generation or
\* tool execution; a completed turn has added exactly the user message and
\* then the assistant message; a turn aborted after classification has added
\* exactly the user message.
C14_MessageOrder ==
    InTurn =>
        /\ turn.pc = "classify" => TurnMessages = <<>> /\ Len(turn.gateway) = 0
        /\ turn.pc # "classify" =>
            /\ Len(TurnMessages) >= 1
            /\ TurnMessages[1] = MessageRow(turn.session, "user", UserText, turn.intent,
                                            turn.entities, <<>>, <<>>,
                                            TurnMessages[1].created_at)
            /\ turn.gateway[1].op = "classify_intent"
        /\ (turn.pc \notin {"classify", "done", "replied"}) => Len(TurnMessages) = 1
        /\ (turn.pc = "done" \/ (turn.pc = "replied" /\ turn.http.status = 200)) =>
            /\ Len(TurnMessages) = 2
            /\ TurnMessages[2].role = "assistant"
            /\ TurnMessages[2].session_id = turn.session
            /\ TurnMessages[2].content = turn.response
        /\ (turn.pc = "replied" /\ turn.http.status # 200) => Len(TurnMessages) = 1

\* C14 witness: a turn ran a tool, obtained its response and was aborted at
\* the save of the assistant message; only its user message is in the log.
C14_Witness ==
    /\ turn.pc = "aborted"
    /\ turn.response # <<>>
    /\ turn.tool_calls_made # <<>>
    /\ Len(TurnMessages) = 1
    /\ TurnMessages[1].role = "user"

DirectIntents == {"greeting", "farewell", "general_question", "complaint", "unknown"}
ProductIntents == {"product_search", "product_recommendation", "product_details"}
OrderIntents == {"order_help", "order_status"}

Classified == turn.pc \notin {"idle", "classify"}

\* C15: a turn classified greeting, farewell, general_question, complaint or
\* unknown executes no tool and never calls call_with_tools; it calls
\* generate_response exactly once, without tool context; its bundle has no
\* tool names, no suggestions and no follow-up questions.
C15_DirectResponse ==
    (Classified /\ turn.intent \in DirectIntents) =>
        /\ turn.tool_calls_made = <<>>
        /\ turn.tool_results = <<>>
        /\ GatewayCallsOf("call_with_tools") = <<>>
        /\ turn.pc = "direct" => GatewayCallsOf("generate_response") = <<>>
        /\ turn.pc # "direct" =>
            /\ Len(GatewayCallsOf("generate_response")) = 1
            /\ GatewayCallsOf("generate_response")[1].context = NoToolResults
            /\ turn.pc \in {"persist", "done", "replied"}
        /\ turn.pc = "replied" =>
            /\ turn.http.status = 200
            /\ turn.http.body.response = turn.response
            /\ turn.http.body.tool_calls_made = <<>>
            /\ turn.http.body.suggestions = <<>>
            /\ turn.http.body.follow_up_questions = <<>>

\* C15 witness: a complaint was answered with one generate_response call and
\* the bundle was returned.
C15_Witness ==
    /\ turn.pc = "replied"
    /\ turn.intent = "complaint"
    /\ turn.http.status = 200
    /\ Len(turn.gateway) = 2
    /\ turn.gateway[2].op = "generate_response"

\* the tool invocations a call_with_tools round returned
Invocations(call) ==
    IF call.out.raised \/ call.out.value.tool_calls.none THEN <<>>
    ELSE call.out.value.tool_calls.items

\* the last round returned no invocation but a text
EndedWithText(rounds) ==
    /\ rounds # <<>>
    /\ Invocations(rounds[Len(rounds)]) = <<>>
    /\ ~rounds[Len(rounds)].out.raised
    /\ rounds[Len(rounds)].out.value.content # <<>>

\* the rounds of the tool loop: at most max_tool_iterations, every round but
\* the last returned invocations and used up one iteration, and a last round
\* that returned a text made it the response without another gateway call
ToolLoopBounded ==
    (Classified /\ turn.intent \in ProductIntents) =>
        /\ Len(GatewayCallsOf("call_with_tools")) <= MaxToolIterations
        /\ turn.iteration <= Len(GatewayCallsOf("call_with_tools"))
        /\ \A i \in 1..Len(GatewayCallsOf("call_with_tools")) :
                \/ Invocations(GatewayCallsOf("call_with_tools")[i]) # <<>> /\ i <= turn.iteration
                \/ /\ i = Len(GatewayCallsOf("call_with_tools"))
                   /\ i = turn.iteration + 1
                   /\ turn.pc # "tool_loop"
        /\ turn.pc = "tool_loop" =>
            /\ turn.iteration < MaxToolIterations
            /\ turn.iteration = Len(GatewayCallsOf("call_with_tools"))
        /\ EndedWithText(GatewayCallsOf("call_with_tools")) =>
            /\ turn.response = turn.gateway[Len(turn.gateway)].out.value.content
            /\ turn.gateway[Len(turn.gateway)].op = "call_with_tools"
            /\ GatewayCallsOf("generate_response") = <<>>

\* C16: in a product turn call_with_tools is called at most max_tool_iterations
\* times whatever the gateway answers; the first round that returns no
\* invocation ends the loop; if it returned a text, that text is the response
\* and no other gateway call follows; the loop always terminates.
C16_ToolLoopTerminates ==
    /\ []ToolLoopBounded
    /\ (turn.pc = "tool_loop") ~> (turn.pc # "tool_loop")

\* C16 witness: the first round ran a tool, the second returned a text, and
\* that text is the response waiting to be saved.
C16_Witness ==
    /\ turn.pc = "persist"
    /\ turn.intent = "product_search"
    /\ Len(turn.gateway) = 3
    /\ turn.iteration = 1
    /\ turn.tool_calls_made # <<>>
    /\ EndedWithText(GatewayCallsOf("call_with_tools"))
    /\ turn.response = <<"Here is what I found.">>

\* every one of the max_tool_iterations rounds returned invocations
LoopExhausted ==
    /\ Len(GatewayCallsOf("call_with_tools")) = MaxToolIterations
    /\ \A i \in 1..MaxToolIterations :
            Invocations(GatewayCallsOf("call_with_tools")[i]) # <<>>

\* C17: when the tool loop is exhausted without text, generate_response is
\* called once on all the accumulated tool results and the turn completes:
\* the assistant message is saved with that response and the bundle returned.
C17_ExhaustedLoopCompletes ==
    (Classified /\ turn.intent \in ProductIntents /\ LoopExhausted) =>
        /\ turn.pc # "aborted"
        /\ turn.pc \in {"persist", "done", "replied"} =>
            /\ Len(GatewayCallsOf("generate_response")) = 1
            /\ GatewayCallsOf("generate_response")[1].context
                    = ToolResults(turn.accumulated_results)
            /\ turn.response = GatewayCallsOf("generate_response")[1].out.value
        /\ turn.pc = "replied" =>
            /\ turn.http.status = 200
            /\ turn.http.body.response = turn.response
            /\ messages[Len(messages)].role = "assistant"
            /\ messages[Len(messages)].content = turn.response

\* the order branch has passed its tool call
OrderLookedUp ==
    /\ Classified
    /\ turn.intent \in OrderIntents
    /\ turn.pc # "order"

\* C18: an order_help or order_status turn executes at most one tool:
\* check_order_status on the entity's order id when there is one, otherwise
\* get_user_orders when the caller is authenticated, otherwise none; with no
\* tool the response is synthesized on an empty tool context and the bundle
\* has no tool names and no suggestions.
C18_OrderBranchPriority ==
    OrderLookedUp =>
        /\ GatewayCallsOf("call_with_tools") = <<>>
        /\ Len(turn.tool_calls_made) <= 1
        /\ turn.suggestions = <<>>
        /\ IF turn.entities.order_id # 0
           THEN /\ turn.tool_calls_made = <<"check_order_status">>
                /\ turn.tool_results[1].tool_name = "check_order_status"
                /\ turn.tool_results[1].success =>
                        turn.tool_results[1].result.items[1].order_id
                            = turn.entities.order_id
           ELSE IF turn.request.user_id # PyNone
           THEN turn.tool_calls_made = <<"get_user_orders">>
           ELSE /\ turn.tool_calls_made = <<>>
                /\ turn.tool_results = <<>>
                /\ turn.pc # "aborted"
                /\ turn.pc # "order_respond" =>
                    /\ Len(GatewayCallsOf("generate_response")) = 1
                    /\ GatewayCallsOf("generate_response")[1].context.items = <<>>
                /\ turn.pc = "replied" =>
                    /\ turn.http.status = 200
                    /\ turn.http.body.tool_calls_made = <<>>
                    /\ turn.http.body.suggestions = <<>>

\* C18 witness: a guest asked for an order status without an order id; no
\* tool ran and the bundle was returned.
C18_Witness ==
    /\ turn.pc = "replied"
    /\ turn.intent = "order_status"
    /\ turn.entities.order_id = 0
    /\ turn.request.user_id = PyNone
    /\ turn.tool_calls_made = <<>>
    /\ turn.http.status = 200

\* C19: an order_help or order_status turn that executed a tool always
\* finishes with a response: also when check_order_status answers "Order not
\* found", the turn produces a final response text, saves the assistant
\* message and returns the bundle.
C19_OrderTurnCompletes ==
    (OrderLookedUp /\ turn.tool_calls_made # <<>>) =>
        /\ (turn.entities.order_id # 0 /\ turn.entities.order_id \notin 1..Len(orders)
                /\ turn.tool_results[1].error_message.text # <<"OperationalError">>) =>
            /\ ~turn.tool_results[1].success
            /\ turn.tool_results[1].error_message = Message(<<"Order not found">>)
        /\ turn.pc # "aborted"
        /\ turn.pc = "replied" =>
            /\ turn.http.status = 200
            /\ messages[Len(messages)].role = "assistant"
            /\ messages[Len(messages)].content = turn.http.body.response

\* texts of exceptions raised by the provider client, the stores and the code
ExceptionTexts ==
    {"APIConnectionError", "JSONDecodeError", "AttributeError", "ValidationError",
     "ValueError", "TypeError", "OperationalError", "PineconeException",
     "PineconeApiException", "'tool_name'", "'order_id'",
     "Object of type datetime is not JSON serializable"}

CarriesExceptionText(text) == \E i \in 1..Len(text) : text[i] \in ExceptionTexts

\* C20: what the end user gets never carries a raw transport or exception
\* message: when a gateway call fails the response is the generic apology or
\* a clarification prompt, and when the turn fails the endpoint's error has
\* no raw exception text.
C20_NoRawErrorToUser ==
    (InTurn /\ turn.pc = "replied") =>
        /\ turn.http.status = 200 =>
            /\ ~CarriesExceptionText(turn.http.body.response)
            /\ (\E i \in 1..Len(turn.gateway) :
                    turn.gateway[i].failed /\ turn.gateway[i].op # "classify_intent")
                => turn.http.body.response = Apology
        /\ turn.http.status # 200 => ~CarriesExceptionText(turn.http.detail)

\* C21: when a tool execution fails inside a turn, its error message is part
\* of the context handed to the next gateway call: the entry that call is
\* given for the failed tool carries the error message.
C21_FailureReachesContext ==
    InTurn =>
        \A i \in 1..Len(turn.gateway) :
            \A j \in 1..Len(turn.gateway[i].context.items) :
                ~turn.tool_results[j].success =>
                    /\ ~turn.tool_results[j].error_message.none
                    /\ "error_message" \in turn.gateway[i].context.items[j].keys

\* the suggestions the i-th executed tool call may have added
ListItemsOf(i) ==
    IF turn.tool_results[i].success /\ turn.tool_results[i].result.kind = "list"
    THEN PySliceTo(turn.tool_results[i].result.items, MaxSuggestions)
    ELSE <<>>

BundleReturned == InTurn /\ turn.pc = "replied" /\ turn.http.status = 200

\* C26: the follow-up questions of a bundle depend on the classified intent
\* only: the product-search list for product_search and
\* product_recommendation, the product-details list for product_details,
\* none for every other intent, whether or not tools ran or succeeded.
C26_FollowUpsByIntent ==
    BundleReturned =>
        /\ turn.http.body.intent \in {"product_search", "product_recommendation"} =>
                turn.http.body.follow_up_questions
                    = <<"Would you like me to filter by price range?",
                        "Should I show more options?",
                        "Want details about any of these products?">>
        /\ turn.http.body.intent = "product_details" =>
                turn.http.body.follow_up_questions
                    = <<"Would you like to see similar products?",
                        "Any questions about this product?">>
        /\ turn.http.body.intent \notin ProductIntents =>
                turn.http.body.follow_up_questions = <<>>

\* C26 witness: a product_details turn whose only tool call failed still
\* returns the product-details questions.
C26_Witness ==
    /\ BundleReturned
    /\ turn.http.body.intent = "product_details"
    /\ Len(turn.tool_results) = 1
    /\ ~turn.tool_results[1].success
    /\ Len(turn.http.body.follow_up_questions) = 2

\* seq is what longer began with
StartsWith(longer, seq) ==
    /\ Len(seq) <= Len(longer)
    /\ SubSeq(longer, 1, Len(seq)) = seq

\* C27: a turn only adds rows: at most one session and at most two messages.
\* Every step of a turn, in every branch and also when the turn aborts,
\* leaves the catalog, the index, the orders and every session and message
\* that existed unchanged.
C27_TurnOnlyAppends ==
    /\ [](InTurn => /\ Len(sessions) - turn.before.sessions \in {0, 1}
                    /\ Len(messages) - turn.before.messages \in {0, 1, 2})
    /\ [][/\ products' = products
          /\ pcIndex' = pcIndex
          /\ orders' = orders
          /\ StartsWith(sessions', sessions)
          /\ StartsWith(messages', messages)]_vars

\* C27 witness: a turn was answered with an error after it had opened a
\* session and saved the user message.
C27_Witness ==
    /\ InTurn
    /\ turn.pc = "replied"
    /\ turn.http.status = 500
    /\ Len(sessions) = turn.before.sessions + 1
    /\ Len(messages) = turn.before.messages + 1

\* the tool names the gateway asked for, round after round, in its order
RECURSIVE RequestedNames(_)
RequestedNames(rounds) ==
    IF rounds = <<>> THEN <<>>
    ELSE [i \in 1..Len(Invocations(Head(rounds))) |->
            Invocations(Head(rounds))[i].tool_name]
         \o RequestedNames(Tail(rounds))

\* C28: the invocations of a round are executed one at a time in the order
\* the gateway returned them; tool_calls_made and the tool results have equal
\* length, the i-th result is that of the i-th name, in execution order; and
\* the tool names saved on the assistant message are the tool_calls_made of
\* the returned bundle (both none when no tool ran).
C28_ToolCallsAligned ==
    InTurn =>
        /\ Len(turn.tool_calls_made) = Len(turn.tool_results)
        /\ Len(turn.accumulated_results) = Len(turn.tool_results)
        /\ \A i \in 1..Len(turn.tool_results) :
             /\ turn.tool_results[i].tool_name = turn.tool_calls_made[i]
             /\ turn.accumulated_results[i].name = turn.tool_calls_made[i]
             /\ turn.accumulated_results[i].result = turn.tool_results[i].result
        /\ turn.intent \in ProductIntents =>
             /\ StartsWith(RequestedNames(GatewayCallsOf("call_with_tools")),
                           turn.tool_calls_made)
             /\ turn.pc # "aborted" =>
                    turn.tool_calls_made
                        = RequestedNames(GatewayCallsOf("call_with_tools"))
        /\ BundleReturned =>
             /\ messages[Len(messages)].role = "assistant"
             /\ messages[Len(messages)].tool_calls = turn.http.body.tool_calls_made
             /\ messages[Len(messages)].tool_results = turn.tool_results

\* C28 witness: one round asked for two different tools; both ran in that
\* order and the bundle and the assistant message name them in that order.
C28_Witness ==
    /\ BundleReturned
    /\ Len(GatewayCallsOf("call_with_tools")) = 2
    /\ Len(Invocations(GatewayCallsOf("call_with_tools")[1])) = 2
    /\ turn.http.body.tool_calls_made = <<"search_products", "get_user_orders">>
    /\ messages[Len(messages)].tool_calls = <<"search_products", "get_user_orders">>

\* a tool result that is a successful list with an item carrying an id
ListsProducts(result) ==
    /\ result.success
    /\ result.result.kind = "list"
    /\ \E j \in 1..Len(result.result.items) : "id" \in result.result.items[j].keys

\* C30: suggestions come only from successful tool results that are lists of
\* items with an id: a successful get_product_details or check_order_status
\* (one record), get_user_orders (items keyed order_id) and every failed
\* result add none, so a turn with only such calls returns no suggestions.
C30_SuggestionSources ==
    InTurn =>
        /\ \A i \in 1..Len(turn.tool_results) :
                turn.tool_results[i].tool_name
                    \in {"get_product_details", "check_order_status", "get_user_orders"}
                => ~ListsProducts(turn.tool_results[i])
        /\ (\A i \in 1..Len(turn.tool_results) : ~ListsProducts(turn.tool_results[i])) =>
             /\ turn.suggestions = <<>>
             /\ BundleReturned => turn.http.body.suggestions = <<>>

\* C30 witness: a product turn of an authenticated user whose only tool call
\* listed the user's orders returned a bundle without suggestions.
C30_Witness ==
    /\ BundleReturned
    /\ turn.intent \in ProductIntents
    /\ turn.tool_calls_made = <<"get_user_orders">>
    /\ turn.tool_results[1].success
    /\ turn.tool_results[1].result.items # <<>>
    /\ turn.http.body.suggestions = <<>>
    /\ \E i \in 1..Len(turn.gateway) :
            /\ turn.gateway[i].op = "call_with_tools"
            /\ Len(Invocations(turn.gateway[i])) = 1

---------------------------------------------------------------------------
(* Claims on the message log, checked under SpecHistory *)

\* the last n elements of a sequence, in its order
LastN(seq, n) == IF Len(seq) <= n THEN seq ELSE SubSeq(seq, Len(seq) - n + 1, Len(seq))

\* the messages of a session in the order they were written
WrittenTo(session) == SelectSeq(messages, LAMBDA m : m.session_id = session)

\* C22: the history read back is the session's messages in the order they
\* were written, also when consecutive messages have the same creation
\* timestamp: all of them when the limit is at least their number, otherwise
\* the most recent limit messages, still in insertion order.
C22_HistoryRoundTrip ==
    historyOut # NoCall =>
        /\ Len(historyOut.out)
                = Len(LastN(WrittenTo(historyOut.session), historyOut.limit))
        /\ \A i \in 1..Len(historyOut.out) :
             /\ historyOut.out[i].content
                    = LastN(WrittenTo(historyOut.session), historyOut.limit)[i].content
             /\ historyOut.out[i].role
                    = LastN(WrittenTo(historyOut.session), historyOut.limit)[i].role

---------------------------------------------------------------------------
(* Claims on concurrent turns, checked under SpecConcurrent *)

\* what a log entry says: its session, role, text and intent
LogEntries(rows) ==
    [i \in 1..Len(rows) |->
        [session_id |-> rows[i].session_id, role |-> rows[i].role,
         content |-> rows[i].content, intent |-> rows[i].intent]]

\* the entries request k writes when it runs alone, as far as it has come
OwnEntries(k) ==
    IF turns[k].pc \in {"idle", "classify"} THEN <<>>
    ELSE <<[session_id |-> turns[k].session, role |-> "user",
            content |-> RequestText(k), intent |-> turns[k].intent]>>
         \o IF turns[k].pc = "done"
            THEN <<[session_id |-> turns[k].session, role |-> "assistant",
                    content |-> ReplyText(k), intent |-> ""]>>
            ELSE <<>>

\* no other request runs on the session of request k
AloneOnSession(k) ==
    \A j \in 1..MaxTurns :
        (j # k /\ turns[j].pc # "idle") => turns[j].session # turns[k].session

\* the positions in the store of the rows with a given text
PositionsOf(text) == {i \in 1..Len(messages) : messages[i].content = text}

\* C25: under any interleaving, each turn appends only to its own resolved
\* session; the log of a session that one turn runs on is the log that turn
\* produces alone; and on a shared session the user message of a turn still
\* precedes the assistant message of that turn.
C25_ConcurrentTurnsIsolated ==
    /\ StartsWith(messages, EarlierLog)
    /\ \A k \in 1..MaxTurns :
        turns[k].pc # "idle" =>
            /\ \A i \in PositionsOf(RequestText(k)) \cup PositionsOf(ReplyText(k)) :
                    messages[i].session_id = turns[k].session
            /\ AloneOnSession(k) =>
                    LogEntries(SelectSeq(messages,
                                         LAMBDA m : m.session_id = turns[k].session))
                        = LogEntries(SelectSeq(EarlierLog,
                                               LAMBDA m : m.session_id = turns[k].session))
                          \o OwnEntries(k)
            /\ Cardinality(PositionsOf(RequestText(k)))
                    = IF turns[k].pc = "classify" THEN 0 ELSE 1
            /\ Cardinality(PositionsOf(ReplyText(k)))
                    = IF turns[k].pc = "done" THEN 1 ELSE 0
            /\ \A i \in PositionsOf(RequestText(k)), j \in PositionsOf(ReplyText(k)) :
                    i < j

\* C25 witness: two requests ran on different sessions and wrote their
\* messages in turn; both are done.
C25_Witness ==
    /\ turns[1].pc = "done"
    /\ turns[2].pc = "done"
    /\ turns[1].session = 1
    /\ turns[2].session = 3
    /\ LogEntries(SubSeq(messages, Len(EarlierLog) + 1, Len(messages)))
            = << [session_id |-> 1, role |-> "user", content |-> RequestText(1),
                  intent |-> turns[1].intent],
                 [session_id |-> 3, role |-> "user", content |-> RequestText(2),
                  intent |-> turns[2].intent],
                 [session_id |-> 1, role |-> "assistant", content |-> ReplyText(1),
                  intent |-> ""],
                 [session_id |-> 3, role |-> "assistant", content |-> ReplyText(2),
                  intent |-> ""] >>

---------------------------------------------------------------------------
(* Claims on the retrieval service, checked under SpecSearch *)

SearchReturned == searchOut.op = "search" /\ ~searchOut.out.raised
SearchFloor ==
    IF searchOut.min_score.t = "none" THEN DefaultMinScore ELSE searchOut.min_score.n

\* C9: after any sequence of catalog and index operations, every item a search
\* returns has a catalog row and that row is active when the search is made,
\* although the index keeps vectors of deactivated and deleted products.
C9_SearchReturnsOnlyActive ==
    SearchReturned =>
        \A i \in 1..Len(searchOut.out.value) :
            products[searchOut.out.value[i].id] = "active"

\* C9 witness: a search returned an item while the index offered, above the
\* score floor, a vector of an inactive product and a vector of a deleted one.
C9_Witness ==
    /\ SearchReturned
    /\ searchOut.out.value # <<>>
    /\ searchOut.category_filter.t = "none" /\ searchOut.min_price.t = "none"
    /\ searchOut.max_price.t = "none"
    /\ searchOut.top_k.n >= Cardinality(pcIndex)
    /\ \E a, b \in pcIndex :
        /\ products[a] = "inactive" /\ CosineScore(searchOut.query, a) >= SearchFloor
        /\ products[b] = "absent" /\ CosineScore(searchOut.query, b) >= SearchFloor

\* C10: the list a search returns is ordered by non-increasing similarity, has
\* at most top_k entries, holds no match whose score is below min_score (the
\* configured default when none is given), and every similarity is in [0,1].
C10_SearchListShape ==
    SearchReturned =>
        LET res == searchOut.out.value
        IN /\ \A i \in 1..Len(res) - 1 : res[i].similarity >= res[i + 1].similarity
           /\ Len(res) <= searchOut.top_k.n
           /\ \A i \in 1..Len(res) :
                /\ CosineScore(searchOut.query, res[i].id) >= SearchFloor
                /\ 0 <= res[i].similarity /\ res[i].similarity <= 100000

\* C10 witness: a list of two or more results of different similarity that
\* is cut at top_k, from an index that also held a match below the floor.
C10_Witness ==
    /\ SearchReturned
    /\ Len(searchOut.out.value) >= 2
    /\ Len(searchOut.out.value) = searchOut.top_k.n
    /\ searchOut.out.value[1].similarity > searchOut.out.value[2].similarity
    /\ Cardinality(pcIndex) > searchOut.top_k.n
    /\ \E id \in pcIndex : CosineScore(searchOut.query, id) < SearchFloor

\* C11: find_similar_products(id, k) never returns the product id itself and
\* returns at most k results (none when k is below zero); when id has no
\* catalog row it returns the empty list and the index is not queried.
C11_FindSimilarExcludesSource ==
    searchOut.op = "find_similar_products" =>
        /\ ~searchOut.out.raised =>
            /\ \A i \in 1..Len(searchOut.out.value) :
                    searchOut.out.value[i].id # searchOut.product_id.n
            /\ Len(searchOut.out.value) <= searchOut.top_k.n \/ searchOut.out.value = <<>>
        /\ (\/ searchOut.product_id.n \notin ProductIds
            \/ products[searchOut.product_id.n] = "absent") =>
            /\ "pinecone" \notin searchOut.out.touched
            /\ searchOut.env.fail # "db" =>
                    ~searchOut.out.raised /\ searchOut.out.value = <<>>

\* C11 witness: the source product is active and has a vector, so the search
\* found it first, and the call with k = 1 returned one other product.
C11_Witness ==
    /\ searchOut.op = "find_similar_products"
    /\ searchOut.product_id = PyInt(1)
    /\ searchOut.top_k = PyInt(1)
    /\ products[1] = "active"
    /\ 1 \in pcIndex
    /\ ~searchOut.out.raised
    /\ Len(searchOut.out.value) = 1

\* what search(q) with the default limit, no filter and the default floor
\* returns from an index holding the vectors of the given ids
SearchOver(index, q, env) ==
    SearchLoop(QueryText(q),
               AboveFloor(QueryText(q),
                          IndexQueryOver(index, QueryText(q), MaxLimit, PyNone, PyNone,
                                         PyNone, env.tie),
                          ScoreFloor(PyNone)),
               env)

=============================================================================
